---- MODULE Spec2Model ----
(***************************************************************************)
(* Candidate resolution and scoring of the memorial-highway scrapers:      *)
(*   - WikipediaLinkFinder      (wikipedia_link_finder.py)       "lf"      *)
(*   - WikipediaResolver        (enhance_memorial_with_retry.py) "rb"      *)
(*   - choose_best_memorial...  (find_a_grave_fixed.py)          "fg"      *)
(*   - ODMPScraper              (consolidated_scraper/scrapers/odmp.py)    *)
(*   - ConsolidatedScraper      (consolidated_scraper/scraper.py)          *)
(*                                                                         *)
(* Scores of the link finder are integers (points).  Scores of             *)
(* resolve_best are floats with a fractional name-similarity part; they    *)
(* are kept in milli-points.  Scores of the Find-A-Grave scorer lie in     *)
(* 0..1 and are kept in units of 1e-5.  String similarities (difflib       *)
(* ratios) are in permille: inputs of SpecScore and Spec, computed from    *)
(* the strings in SpecName and SpecScenario.  SpecRetry is the retry loop  *)
(* of process_person_with_retry (enhance_memorial_with_retry.py and        *)
(* enhance_memorial_data.py).                                              *)
(*                                                                         *)
(* The tools around the resolution have a specification each: SpecCsv      *)
(* (process_csv, the loop over rows and names), SpecPerson (the cache of a *)
(* Person object), SpecDate (the date normalizers), SpecExtract            *)
(* (extract_person_names), SpecResume (resume support of the ODMP          *)
(* scraping scripts) and SpecEnhance (the row loops of enhance_csv and     *)
(* enhance_csv_with_retry).                                                *)
(***************************************************************************)
EXTENDS Integers, Sequences, FiniteSets, TLC

VARIABLES
    \* ---- scoring of one candidate (SpecScore)
    sc_pc, sc_impl, sc_ctx, sc_county, sc_doc, sc_out,
    \* ---- one resolution pass (Spec)
    impl, pc, ctx, county, threshold, have_items,
    candidates, seen_q, qi, ci, scored, fetch_log, best, review, result,
    \* ---- ODMP scraper (SpecODMP)
    registry, officers_cache, driver, enumerations, visits, odmp_ret, odmp_calls,
    \* ---- ConsolidatedScraper.scrape_batch (SpecBatch)
    names, bi, results, enabled, output_file, b_pc, b_index,
    \* ---- process_person_with_retry (SpecRetry)
    r_impl, r_pc, attempt, attempts_log, sleeps, counts, r_result,
    \* ---- the name-similarity signal of one (target, candidate title) pair (SpecName)
    n_pc, n_impl, n_target, n_title, n_out,
    \* ---- one candidate of the link finder, from its strings to the decision (SpecScenario)
    s_pc, s_name, s_designation, s_title, s_page, s_score, s_url,
    \* ---- WikipediaLinkFinder.process_csv, the loop over rows and names (SpecCsv)
    c_pc, c_rows, c_i, c_j, processed_names, searched, c_results,
    \* ---- one Person object and the calls made on it (SpecPerson)
    p_summary, p_structured_data, p_data_extracted, p_extractions, p_log,
    \* ---- one date string and what each of the three normalizers makes of it (SpecDate)
    d_input, d_done, d_out,
    \* ---- extract_person_names on one designation (SpecExtract)
    x_pc, x_impl, x_designation, x_person, x_out,
    \* ---- a run of an ODMP scraping script over its output file (SpecResume)
    u_script, u_pc, u_file, scraped_urls, u_links, u_i, u_j, u_log,
    \* ---- enhance_csv and enhance_csv_with_retry, the loop over rows (SpecEnhance)
    e_impl, e_pc, e_input, max_entries, e_rows, e_i, enhanced_rows, e_counts, processed_count, skipped_count

scoreVars == <<sc_pc, sc_impl, sc_ctx, sc_county, sc_doc, sc_out>>
resVars   == <<impl, pc, ctx, county, threshold, have_items, candidates, seen_q, qi, ci,
               scored, fetch_log, best, review, result>>
odmpVars  == <<registry, officers_cache, driver, enumerations, visits, odmp_ret, odmp_calls>>
batchVars == <<names, bi, results, enabled, output_file, b_pc, b_index>>
retryVars == <<r_impl, r_pc, attempt, attempts_log, sleeps, counts, r_result>>
nameVars  == <<n_pc, n_impl, n_target, n_title, n_out>>
scenVars  == <<s_pc, s_name, s_designation, s_title, s_page, s_score, s_url>>
csvVars   == <<c_pc, c_rows, c_i, c_j, processed_names, searched, c_results>>
personVars == <<p_summary, p_structured_data, p_data_extracted, p_extractions, p_log>>
dateVars  == <<d_input, d_done, d_out>>
extractVars == <<x_pc, x_impl, x_designation, x_person, x_out>>
resumeVars == <<u_script, u_pc, u_file, scraped_urls, u_links, u_i, u_j, u_log>>
enhanceVars == <<e_impl, e_pc, e_input, max_entries, e_rows, e_i, enhanced_rows, e_counts, processed_count, skipped_count>>
\* the groups of the first seven specifications, and the groups that follow them
oldVars   == <<scoreVars, resVars, odmpVars, batchVars, retryVars, nameVars, scenVars>>
moreVars  == <<csvVars, personVars, dateVars, extractVars, resumeVars, enhanceVars>>
vars      == <<oldVars, moreVars>>
\* what an action of one of the later specifications leaves alone
notCsv    == <<oldVars, personVars, dateVars, extractVars, resumeVars, enhanceVars>>
notPerson == <<oldVars, csvVars, dateVars, extractVars, resumeVars, enhanceVars>>
notDate   == <<oldVars, csvVars, personVars, extractVars, resumeVars, enhanceVars>>
notExtract == <<oldVars, csvVars, personVars, dateVars, resumeVars, enhanceVars>>
notResume == <<oldVars, csvVars, personVars, dateVars, extractVars, enhanceVars>>
notEnhance == <<oldVars, csvVars, personVars, dateVars, extractVars, resumeVars>>

None == "None"

Max(a, b) == IF a >= b THEN a ELSE b
Min(a, b) == IF a <= b THEN a ELSE b
Range(s) == {s[i] : i \in 1..Len(s)}

(***************************************************************************)
(* Context extractor: the roles a designation makes the scorer expect.     *)
(***************************************************************************)
Roles == {"military", "law", "politics", "religion", "music", "sport"}

\* a note of the audit trail: its tag and the number printed with it (0 if none)
Note(tag, val) == [tag |-> tag, val |-> val]

\* add_if / "score += v; notes.append(tag)"
Acc(st, cond, pts, note) ==
    IF cond THEN [score |-> st.score + pts, notes |-> Append(st.notes, note)] ELSE st

\* a score change that appends nothing to notes
AccSilent(st, cond, pts) ==
    IF cond THEN [score |-> st.score + pts, notes |-> st.notes] ELSE st

(***************************************************************************)
(* WikipediaLinkFinder._score_candidate.  d holds the outcome of every     *)
(* test the code makes on the title, the page summary and the Wikidata     *)
(* traits; cx is the set of expected roles, cty whether a county is given. *)
(* The result is the raw integer score and the notes, in the code's order. *)
(***************************************************************************)
ScoreLF(d, cx, cty) ==
    LET military_hit == "military" \in d.hits
        law_hit == "law" \in d.hits
        s0  == [score |-> 0, notes |-> <<>>]
        s1  == Acc(s0, d.disamb_title, -30, Note("disambiguation-title", 0))
        s2  == AccSilent(s1, ~d.likely_person, -10)
        s3  == Acc(s2, d.nobility, -40, Note("nobility-title", 0))
        s4  == Acc(s3, d.territorial, -30, Note("territorial-title", 0))
        s5  == Acc(s4, d.roman, -25, Note("roman-numeral-after-first-name", 0))
        \* score += int(sim * 20); notes.append(f"name-sim:{sim:.2f}")
        s6  == Acc(s5, TRUE, (d.sim * 20) \div 1000, Note("name-sim", (d.sim + 5) \div 10))
        s7  == Acc(s6, d.type_disamb, -30, Note("disambiguation-summary", 0))
        s8  == IF d.qid = 0 THEN s7
               ELSE IF d.is_human THEN Acc(s7, TRUE, 40, Note("is-human", 0))
               ELSE Acc(s7, TRUE, 0, Note("not-human", 0))
        s9  == Acc(s8, "military" \in cx /\ military_hit, 15, Note("role-military", 0))
        s10 == Acc(s9, "law" \in cx /\ law_hit, 15, Note("role-law", 0))
        s11 == Acc(s10, "politics" \in cx /\ "politics" \in d.hits, 15, Note("role-politics", 0))
        s12 == Acc(s11, "religion" \in cx /\ "religion" \in d.hits, 15, Note("role-religion", 0))
        s13 == Acc(s12, "music" \in cx /\ "music" \in d.hits, 10, Note("role-music", 0))
        s14 == Acc(s13, "sport" \in cx /\ "sport" \in d.hits, 10, Note("role-sport", 0))
        expect_modern_service == "law" \in cx \/ "military" \in cx
        s15 == Acc(s14, expect_modern_service /\ d.pre1900, -35, Note("historical-pre1900", 0))
        s16 == Acc(s15, d.name_parts /\ d.last_missing, -10, Note("last-name-missing", 0))
        s17 == Acc(s16, d.name_parts /\ d.first_missing, -5, Note("first-name-missing", 0))
        s18 == Acc(s17, d.name_parts /\ d.mid_initial /\ d.roman_vs_mid, -30,
                   Note("roman-vs-middle-initial", 0))
        s19 == Acc(s18, d.name_parts /\ d.mid_initial /\ d.mid_mismatch, -10,
                   Note("middle-initial-mismatch", 0))
        s20 == Acc(s19, d.florida, 10, Note("mentions-florida", 0))
        s21 == Acc(s20, cty /\ d.county_hit, 8, Note("mentions-county", 0))
        s22 == Acc(s21, ~d.florida, -10, Note("no-florida-penalty", 0))
        s23 == Acc(s22, cty /\ ~d.county_hit, -8, Note("no-county-penalty", 0))
        s24 == Acc(s23, d.us, 5, Note("mentions-us", 0))
        s25 == Acc(s24, d.nonperson, -15, Note("non-person-hint", 0))
        s26 == Acc(s25, "law" \in cx /\ ~law_hit, -50, Note("law-gate-fail", 0))
        s27 == Acc(s26, "military" \in cx /\ ~military_hit, -50, Note("military-gate-fail", 0))
    IN  s27

(***************************************************************************)
(* WikipediaResolver.resolve_best, the scoring helpers.  Milli-points.     *)
(***************************************************************************)
Pts(n) == n * 1000

\* name_similarity_points: seq_score = ratio * 20, noted as "seq=%.1f"
name_similarity_points(d) ==
    LET seq_score == d.sim * 20
        n0 == <<Note("seq", (seq_score + 50) \div 100)>>
        last_bonus == IF ~d.tokens THEN 0 ELSE IF d.last_eq THEN Pts(6) ELSE Pts(-4)
        n1 == IF d.tokens /\ ~d.last_eq THEN Append(n0, Note("last-mismatch", -4)) ELSE n0
        first_bonus == IF ~d.tokens THEN 0 ELSE IF d.first_ok THEN Pts(6) ELSE Pts(-2)
        total == Max(0, Min(Pts(20), seq_score + last_bonus + first_bonus))
    IN  [score |-> total, notes |-> n1]

\* a gate whose matched role earns nothing
GateRB_nobonus(st, expected, hit, okTag, missTag) ==
    IF ~expected THEN st
    ELSE IF hit THEN Acc(st, TRUE, 0, Note(okTag, 15))
    ELSE Acc(st, TRUE, Pts(-50), Note(missTag, -50))

\* "if roles[r]: if hit: pts += 15 else: pts -= 50"
GateRB(st, expected, hit, okTag, missTag) ==
    IF ~expected THEN st
    ELSE IF hit THEN Acc(st, TRUE, Pts(15), Note(okTag, 15))
    ELSE Acc(st, TRUE, Pts(-50), Note(missTag, -50))

role_context_points(d, cx) ==
    LET r0 == [score |-> 0, notes |-> <<>>]
        r1 == GateRB(r0, "law" \in cx, "law" \in d.hits, "le", "le-missing")
        r2 == GateRB(r1, "military" \in cx, "military" \in d.hits, "mil", "mil-missing")
        r3 == Acc(r2, "politics" \in cx /\ "politics" \in d.hits, Pts(15), Note("pol", 15))
        r4 == Acc(r3, "religion" \in cx /\ "religion" \in d.hits, Pts(15), Note("rel", 15))
        r5 == Acc(r4, "music" \in cx /\ "music" \in d.hits, Pts(10), Note("mus", 10))
        r6 == Acc(r5, "sport" \in cx /\ "sport" \in d.hits, Pts(10), Note("ath", 10))
    IN  r6

location_points(d, cty) ==
    LET l0 == [score |-> 0, notes |-> <<>>]
        l1 == IF d.florida THEN Acc(l0, TRUE, Pts(10), Note("fl", 10))
              ELSE Acc(l0, TRUE, Pts(-10), Note("fl-miss", -10))
        l2 == IF cty /\ d.county_hit THEN Acc(l1, TRUE, Pts(8), Note("county", 8))
              ELSE Acc(l1, cty, Pts(-8), Note("county-miss", -8))
        l3 == Acc(l2, d.us, Pts(5), Note("us", 5))
    IN  l3

penalty_points(d, cx) ==
    LET p0 == [score |-> 0, notes |-> <<>>]
        p1 == Acc(p0, d.disamb_title, Pts(-30), Note("disamb", -30))
        p2 == Acc(p1, d.nobility, Pts(-40), Note("nobility", -40))
        p3 == Acc(p2, d.roman, Pts(-25), Note("roman", -25))
        p4 == Acc(p3, d.nonperson, Pts(-15), Note("nonperson", -15))
        p5 == Acc(p4, d.pre1900 /\ ("law" \in cx \/ "military" \in cx), Pts(-35),
                  Note("pre1900", -35))
    IN  p5

\* the body of the "Score candidates" loop: score and notes of one candidate
ScoreRB(d, cx, cty) ==
    LET ns == name_similarity_points(d)
        human == IF d.is_human THEN Pts(40) ELSE 0
        nnotes == IF d.is_human THEN Append(ns.notes, Note("human", 40)) ELSE ns.notes
        r == role_context_points(d, cx)
        l == location_points(d, cty)
        p == penalty_points(d, cx)
        raw == ns.score + human + r.score + l.score + p.score
    IN  [score |-> Max(0, Min(Pts(100), raw)),
         notes |-> nnotes \o r.notes \o l.notes \o p.notes]

(***************************************************************************)
(* find_a_grave_fixed.score_candidate.  Units of 1e-5.                     *)
(***************************************************************************)
ScoreFG(d) ==
    LET name_part == d.sim * 65
        year_bonus == (IF d.birth_match THEN 18000 ELSE 0) + (IF d.death_match THEN 12000 ELSE 0)
        state_part == (IF d.state_abbr_hit THEN 10000 ELSE 0) + (IF d.state_str_hit THEN 5000 ELSE 0)
        pref_part == IF d.pref_abbr_hit THEN 15000 ELSE IF d.pref_name_hit THEN 12000 ELSE 0
    IN  Min(name_part + year_bonus + state_part + pref_part, 100000)

(***************************************************************************)
(* The inputs of the scorers: what a candidate title, page summary and     *)
(* Wikidata entity can look like to the tests above.                       *)
(***************************************************************************)
\* permille values of SequenceMatcher.ratio()
Sims == {0, 600, 849, 1000}

\* the role contexts a designation can produce, and the role vocabulary a
\* candidate text can hit (a hit of a role that is not expected is never read
\* where it could change the score)
Contexts == {{}, {"law"}, {"military"}, {"law", "military"},
             {"politics", "religion"}, {"music", "sport"}}

Shape(dt, lp, nob, ter, rom, np, lm, fm, mi, rvm, mm) ==
    [disamb_title |-> dt, likely_person |-> lp, nobility |-> nob, territorial |-> ter,
     roman |-> rom, name_parts |-> np, last_missing |-> lm, first_missing |-> fm,
     mid_initial |-> mi, roman_vs_mid |-> rvm, mid_mismatch |-> mm]

\* (query name, candidate title) pairs as the link finder's title tests see them
TitleShapes ==
    { \* "John Smith" / "John Smith"
      Shape(FALSE, TRUE, FALSE, FALSE, FALSE, TRUE, FALSE, FALSE, FALSE, FALSE, FALSE),
      \* "John Smith" / "John Smith (disambiguation)"
      Shape(TRUE, FALSE, FALSE, FALSE, FALSE, TRUE, FALSE, FALSE, FALSE, FALSE, FALSE),
      \* "John Smith" / "John II, Lord of Mecklenburg"
      Shape(FALSE, TRUE, TRUE, TRUE, TRUE, TRUE, TRUE, FALSE, FALSE, FALSE, FALSE),
      \* "John A. Smith" / "John V Smith".  re.findall(r"[A-Za-z]+|[A-Za-z]\.") yields
      \* "A", never "A.", so no name is seen to have a middle initial
      Shape(FALSE, TRUE, FALSE, FALSE, TRUE, TRUE, FALSE, FALSE, FALSE, FALSE, FALSE),
      \* "John Smith" / "Smith County, Texas"
      Shape(FALSE, FALSE, FALSE, FALSE, FALSE, TRUE, FALSE, TRUE, FALSE, FALSE, FALSE),
      \* "William Cole" / "Bill Cole"
      Shape(FALSE, TRUE, FALSE, FALSE, FALSE, TRUE, FALSE, TRUE, FALSE, FALSE, FALSE),
      \* "Cher" / "Cher"
      Shape(FALSE, TRUE, FALSE, FALSE, FALSE, FALSE, FALSE, FALSE, FALSE, FALSE, FALSE) }

\* record concatenation for records with disjoint fields
Merge(r1, r2) ==
    [f \in (DOMAIN r1) \cup (DOMAIN r2) |-> IF f \in DOMAIN r1 THEN r1[f] ELSE r2[f]]

\* documents of the link finder under context cx, county given or not;
\* B is the domain of the text flags, Q the Wikidata ids a summary can name
DocsLF(cx, cty, shapes, sims, B, Q) ==
    { Merge(sh, t) :
        sh \in shapes,
        t \in { x \in [sim : sims, type_disamb : B, qid : Q \cup {0}, is_human : BOOLEAN,
                       hits : SUBSET cx, pre1900 : B, florida : BOOLEAN,
                       county_hit : BOOLEAN, us : BOOLEAN, nonperson : B] :
                  /\ x.is_human => x.qid # 0
                  /\ x.county_hit => cty
                  /\ x.pre1900 => (cx \cap {"law", "military"} # {}) } }

\* documents of resolve_best
DocsRB(cx, cty, sims, B) ==
    { x \in [sim : sims, tokens : BOOLEAN, last_eq : BOOLEAN, first_ok : BOOLEAN,
             is_human : BOOLEAN, hits : SUBSET cx, florida : BOOLEAN,
             county_hit : BOOLEAN, us : BOOLEAN, disamb_title : B, nobility : B, roman : B,
             nonperson : B, pre1900 : B] :
        /\ ~x.tokens => (~x.last_eq /\ ~x.first_ok)
        /\ x.county_hit => cty
        /\ x.pre1900 => (cx \cap {"law", "military"} # {}) }

\* parsed memorial pages of the Find-A-Grave scorer
DocsFG(sims) ==
    { x \in [sim : sims, birth_match : BOOLEAN, death_match : BOOLEAN,
             state_abbr_hit : BOOLEAN, state_str_hit : BOOLEAN,
             pref_abbr_hit : BOOLEAN, pref_name_hit : BOOLEAN] : TRUE }

(***************************************************************************)
(* Idle values of the variable groups a specification does not use.        *)
(***************************************************************************)
IdleScore ==
    /\ sc_pc = "idle" /\ sc_impl = None /\ sc_ctx = {} /\ sc_county = FALSE
    /\ sc_doc = None /\ sc_out = None

IdleRes ==
    /\ impl = None /\ pc = "idle" /\ ctx = {} /\ county = FALSE /\ threshold = 0
    /\ have_items = FALSE /\ candidates = <<>> /\ seen_q = {} /\ qi = 0 /\ ci = 0
    /\ scored = <<>> /\ fetch_log = <<>> /\ best = None /\ review = <<>> /\ result = None

\* self._officers_cache: None, or the list a completed collection stored
NoCache == [cached |-> FALSE, officers |-> <<>>]

IdleODMP ==
    /\ registry = <<>> /\ officers_cache = NoCache /\ driver = FALSE /\ enumerations = 0
    /\ visits = <<>> /\ odmp_ret = None /\ odmp_calls = <<>>

IdleBatch ==
    /\ names = <<>> /\ bi = 0 /\ results = <<>> /\ enabled = {} /\ output_file = FALSE
    /\ b_pc = "idle" /\ b_index = [cached |-> FALSE, failed_at |-> 0]

IdleRetry ==
    /\ r_impl = None /\ r_pc = "idle" /\ attempt = 0 /\ attempts_log = <<>>
    /\ sleeps = <<>> /\ counts = [success |-> 0, rate_limit |-> 0, error |-> 0]
    /\ r_result = [summary |-> "", dob |-> ""]

IdleScen ==
    /\ s_pc = "idle" /\ s_name = <<>> /\ s_designation = <<>> /\ s_title = <<>>
    /\ s_page = None /\ s_score = 0 /\ s_url = None

IdleName ==
    /\ n_pc = "idle" /\ n_impl = None /\ n_target = <<>> /\ n_title = <<>> /\ n_out = 0

\* self._structured_data: None, or the dictionary an extraction stored
NoData == [present |-> FALSE, education |-> None, date_of_birth |-> None]

IdleCsv ==
    /\ c_pc = "idle" /\ c_rows = <<>> /\ c_i = 0 /\ c_j = 0 /\ processed_names = {}
    /\ searched = <<>> /\ c_results = <<>>

IdleOld ==
    IdleScore /\ IdleRes /\ IdleODMP /\ IdleBatch /\ IdleRetry /\ IdleName /\ IdleScen

IdlePerson ==
    /\ p_summary = None /\ p_structured_data = NoData /\ p_data_extracted = FALSE
    /\ p_extractions = 0 /\ p_log = <<>>

IdleDate ==
    /\ d_input = <<>> /\ d_done = {} /\ d_out = <<>>

IdleExtract ==
    /\ x_pc = "idle" /\ x_impl = None /\ x_designation = <<>> /\ x_person = <<>> /\ x_out = <<>>

IdleResume ==
    /\ u_script = None /\ u_pc = "idle" /\ u_file = <<>> /\ scraped_urls = {} /\ u_links = <<>>
    /\ u_i = 0 /\ u_j = 0 /\ u_log = <<>>

IdleEnhance ==
    /\ e_impl = None /\ e_pc = "idle" /\ e_input = <<>> /\ max_entries = 0 /\ e_rows = <<>> /\ e_i = 0
    /\ enhanced_rows = <<>> /\ e_counts = [success |-> 0, rate_limit |-> 0, error |-> 0]
    /\ processed_count = 0 /\ skipped_count = 0

IdleMore == IdleCsv /\ IdlePerson /\ IdleDate /\ IdleExtract /\ IdleResume /\ IdleEnhance
IdleNotCsv == IdleOld /\ IdlePerson /\ IdleDate /\ IdleExtract /\ IdleResume /\ IdleEnhance
IdleNotPerson == IdleOld /\ IdleCsv /\ IdleDate /\ IdleExtract /\ IdleResume /\ IdleEnhance
IdleNotDate == IdleOld /\ IdleCsv /\ IdlePerson /\ IdleExtract /\ IdleResume /\ IdleEnhance
IdleNotExtract == IdleOld /\ IdleCsv /\ IdlePerson /\ IdleDate /\ IdleResume /\ IdleEnhance
IdleNotResume == IdleOld /\ IdleCsv /\ IdlePerson /\ IdleDate /\ IdleExtract /\ IdleEnhance
IdleNotEnhance == IdleOld /\ IdleCsv /\ IdlePerson /\ IdleDate /\ IdleExtract /\ IdleResume

(***************************************************************************)
(* SpecScore: one candidate is scored by one of the three scorers.         *)
(***************************************************************************)
InitScore ==
    /\ sc_pc = "ready"
    /\ sc_out = None
    /\ sc_impl \in {"lf", "rb", "fg"}
    /\ sc_ctx \in Contexts
    /\ sc_county \in BOOLEAN
    /\ \/ sc_impl = "lf" /\ sc_doc \in DocsLF(sc_ctx, sc_county, TitleShapes, Sims, BOOLEAN, {1})
       \/ sc_impl = "rb" /\ sc_doc \in DocsRB(sc_ctx, sc_county, Sims, BOOLEAN)
       \/ sc_impl = "fg" /\ sc_ctx = {} /\ ~sc_county /\ sc_doc \in DocsFG(Sims)
    /\ IdleRes /\ IdleODMP /\ IdleBatch /\ IdleRetry /\ IdleName /\ IdleScen /\ IdleMore

ScoreCandidateLF ==
    /\ sc_pc = "ready" /\ sc_impl = "lf"
    /\ sc_out' = ScoreLF(sc_doc, sc_ctx, sc_county)
    /\ sc_pc' = "scored"
    /\ UNCHANGED <<sc_impl, sc_ctx, sc_county, sc_doc, resVars, odmpVars, batchVars,
                   retryVars, nameVars, scenVars, moreVars>>

ScoreCandidateRB ==
    /\ sc_pc = "ready" /\ sc_impl = "rb"
    /\ sc_out' = ScoreRB(sc_doc, sc_ctx, sc_county)
    /\ sc_pc' = "scored"
    /\ UNCHANGED <<sc_impl, sc_ctx, sc_county, sc_doc, resVars, odmpVars, batchVars,
                   retryVars, nameVars, scenVars, moreVars>>

ScoreCandidateFG ==
    /\ sc_pc = "ready" /\ sc_impl = "fg"
    /\ sc_out' = [score |-> ScoreFG(sc_doc), notes |-> <<>>]
    /\ sc_pc' = "scored"
    /\ UNCHANGED <<sc_impl, sc_ctx, sc_county, sc_doc, resVars, odmpVars, batchVars,
                   retryVars, nameVars, scenVars, moreVars>>

NextScore == ScoreCandidateLF \/ ScoreCandidateRB \/ ScoreCandidateFG

SpecScore == InitScore /\ [][NextScore]_vars

(***************************************************************************)
(* Replaying an audit trail against the weight tables.                     *)
(***************************************************************************)
\* points the link finder attaches to each tag it writes
WeightLF(n) ==
    CASE n.tag = "disambiguation-title" -> -30
      [] n.tag = "nobility-title" -> -40
      [] n.tag = "territorial-title" -> -30
      [] n.tag = "roman-numeral-after-first-name" -> -25
      [] n.tag = "name-sim" -> (n.val * 20) \div 100
      [] n.tag = "disambiguation-summary" -> -30
      [] n.tag = "is-human" -> 40
      [] n.tag = "not-human" -> 0
      [] n.tag \in {"role-military", "role-law", "role-politics", "role-religion"} -> 15
      [] n.tag \in {"role-music", "role-sport"} -> 10
      [] n.tag = "historical-pre1900" -> -35
      [] n.tag = "last-name-missing" -> -10
      [] n.tag = "first-name-missing" -> -5
      [] n.tag = "roman-vs-middle-initial" -> -30
      [] n.tag = "middle-initial-mismatch" -> -10
      [] n.tag = "mentions-florida" -> 10
      [] n.tag = "mentions-county" -> 8
      [] n.tag = "no-florida-penalty" -> -10
      [] n.tag = "no-county-penalty" -> -8
      [] n.tag = "mentions-us" -> 5
      [] n.tag = "non-person-hint" -> -15
      [] n.tag \in {"law-gate-fail", "military-gate-fail"} -> -50

\* resolve_best writes the points into the note: "seq=%.1f" in tenths of a
\* point, every other note "tag:+n" in points
WeightRB(n) == IF n.tag = "seq" THEN n.val * 100 ELSE Pts(n.val)

RECURSIVE ReplayLF(_)
ReplayLF(notes) ==
    IF notes = <<>> THEN 0 ELSE WeightLF(Head(notes)) + ReplayLF(Tail(notes))

RECURSIVE ReplayRB(_)
ReplayRB(notes) ==
    IF notes = <<>> THEN 0 ELSE WeightRB(Head(notes)) + ReplayRB(Tail(notes))

Clamp(x, lo, hi) == Max(lo, Min(hi, x))

\* C2 -- every candidate score produced by _score_candidate or by the scoring
\* loop of resolve_best lies in [0,100].
C2_ScoreInRange ==
    (sc_pc = "scored" /\ sc_impl \in {"lf", "rb"}) =>
        IF sc_impl = "lf" THEN sc_out.score >= 0 /\ sc_out.score <= 100
        ELSE sc_out.score >= 0 /\ sc_out.score <= Pts(100)

\* C3 -- replaying a scored candidate's notes against the weight table, and
\* clamping to [0,100], reproduces the candidate's score.
C3_NotesReproduceScore ==
    (sc_pc = "scored" /\ sc_impl \in {"lf", "rb"}) =>
        IF sc_impl = "lf"
        THEN Clamp(ReplayLF(sc_out.notes), 0, 100) = Clamp(sc_out.score, 0, 100)
        ELSE Clamp(ReplayRB(sc_out.notes), 0, Pts(100)) = sc_out.score

(***************************************************************************)
(* One resolution pass (Spec).  The world: Wikipedia pages 1..MaxPages,    *)
(* page 1 being the page whose title is the query name; Wikidata items     *)
(* 1..MaxQids; Find-A-Grave memorial ids.                                  *)
(***************************************************************************)
MaxPages == 2
MaxQids == 2
MaxAnchors == 3

Pages == 1..MaxPages
Qids == 1..MaxQids
MemIds == 1..(MaxPages + 2)
NamePage == 1

\* pageprops.wikibase_item of a page, 0 if it has none
WikibaseItem(p) == IF p <= MaxQids THEN p ELSE 0
\* sitelinks.enwiki.title of an item, 0 if it has none
Sitelink(q) == IF q <= MaxPages THEN q ELSE 0

\* titles holding characters that urllib.parse.quote escapes (parentheses,
\* apostrophes, commas, non-ASCII letters)
Quoted(p) == p % 2 = 0

\* the page titled "<name> (disambiguation)"; quote escapes its parentheses
Disambiguation(p) == p = NamePage + 1

\* a raw title as a search result gives it
RawTitle(p) == [page |-> p, mangled |-> FALSE]
\* f"https://en.wikipedia.org/wiki/{quote(title.replace(' ', '_'))}"
UrlOf(p) == p
\* url.split('/wiki/', 1)[1].replace('_', ' '): escapes are not undone
TitleOfUrl(u) == [page |-> u, mangled |-> Quoted(u)]

\* a result list: some of the elements of S, in the order the service ranks them
RankedSeqs(S) ==
    UNION { { q \in [1..n -> S] : \A i, j \in 1..n : i < j => q[i] < q[j] } :
            n \in 0..Cardinality(S) }

\* a request as the session issues it; paced: a time.sleep precedes it
Req(kind, key, paced) == [kind |-> kind, key |-> key, paced |-> paced]

RECURSIVE EntityReqs(_)
EntityReqs(qs) ==
    IF qs = <<>> THEN <<>> ELSE <<Req("entity", Head(qs), FALSE)>> \o EntityReqs(Tail(qs))

\* query_variants of search_wikipedia_with_validation
NumQueriesLF(cx, cty) ==
    1 + (IF "law" \in cx THEN 4 ELSE 0) + (IF "military" \in cx THEN 3 ELSE 0)
      + (IF cty THEN 1 ELSE 0) + 1

\* queries of resolve_best
NumQueriesRB(cx, cty) ==
    1 + (IF cty THEN 1 ELSE 0) + 1 + Cardinality(cx)

\* contexts and documents of the resolution passes
PassContexts == {{}, {"law"}}

PassShapes ==
    { Shape(FALSE, TRUE, FALSE, FALSE, FALSE, TRUE, FALSE, FALSE, FALSE, FALSE, FALSE),
      Shape(FALSE, FALSE, FALSE, FALSE, FALSE, TRUE, FALSE, TRUE, FALSE, FALSE, FALSE) }

\* _fetch_page_summary returned its default: nothing to read
EmptySummary(d) ==
    /\ d.qid = 0 /\ ~d.type_disamb /\ d.hits = {} /\ ~d.florida /\ ~d.county_hit
    /\ ~d.us /\ ~d.pre1900

\* the documents the link finder can see for title t: a title whose escapes
\* were not undone is escaped again by _fetch_page_summary and names no page
PassDocsLF(t, cx, cty) ==
    { d \in DocsLF(cx, cty, PassShapes, {1000}, {FALSE}, {WikibaseItem(t.page)} \ {0}) :
        /\ t.mangled => EmptySummary(d)
        /\ d.hits = (IF d.florida THEN cx ELSE {})
        /\ d.us = d.florida /\ d.county_hit = (cty /\ d.florida) }

\* occ_ids, place_ids (P19 + P20) and country_ids handed to _labels_for;
\* label items are numbered below zero
LabelIds(d) == IF d.qid # 0 THEN {<<>>, <<-1, -1>>} ELSE {<<>>}

MIN_SCORE_TO_ACCEPT == 25000
MAX_CANDIDATES == 3

\* ACCEPTANCE_THRESHOLD values of the environment (default 0), in milli-points
Thresholds == {0, Pts(75)}

NoBest(score0) == [url |-> 0, score |-> score0, notes |-> <<>>, id |-> RawTitle(0)]

InitPass ==
    /\ impl \in {"lf", "rb", "fg"}
    /\ pc = IF impl = "fg" THEN "search" ELSE "direct"
    /\ ctx \in (IF impl = "fg" THEN {{}} ELSE PassContexts)
    /\ county \in (IF impl = "fg" THEN {FALSE} ELSE BOOLEAN)
    /\ threshold \in (CASE impl = "lf" -> {75}
                        [] impl = "rb" -> Thresholds
                        [] impl = "fg" -> {MIN_SCORE_TO_ACCEPT})
    /\ have_items = FALSE
    /\ candidates = <<>> /\ seen_q = {} /\ qi = 0 /\ ci = 1
    /\ scored = <<>> /\ fetch_log = <<>> /\ review = <<>> /\ result = None
    /\ best = (CASE impl = "lf" -> NoBest(-999)
                 [] impl = "rb" -> NoBest(0)
                 [] impl = "fg" -> NoBest(0))
    /\ IdleScore /\ IdleODMP /\ IdleBatch /\ IdleRetry /\ IdleName /\ IdleScen /\ IdleMore

\* the tuple search_wikipedia_with_validation returns, and what process_csv
\* derives from it ('status': 'Found' if wikipedia_url else 'Not Found')
ResultLF(url, conf, notes, title, err) ==
    [url |-> url, status |-> IF url # 0 THEN "Found" ELSE "Not Found",
     confidence |-> conf, notes |-> notes, title |-> title,
     review |-> <<>>, error |-> err, raised |-> FALSE]

(***************************************************************************)
(* WikipediaLinkFinder.search_wikipedia_with_validation                    *)
(***************************************************************************)
\* direct_url = self.search_wikipedia(name)
LF_Direct ==
    /\ impl = "lf" /\ pc = "direct"
    /\ \/ \E ok \in BOOLEAN :
            \* the title lookup answers 200, or the request raises
            /\ candidates' = IF ok THEN <<UrlOf(NamePage)>> ELSE <<>>
            /\ fetch_log' = Append(fetch_log, Req("title", NamePage, FALSE))
       \/ \E hit \in Pages \cup {0} :
            \* the search fallback: its first likely person page, 0 if none
            /\ candidates' = IF hit # 0 THEN <<UrlOf(hit)>> ELSE <<>>
            /\ fetch_log' = fetch_log \o <<Req("title", NamePage, FALSE),
                                           Req("search", 0, TRUE)>>
    /\ pc' = "queries"
    /\ UNCHANGED <<impl, ctx, county, threshold, have_items, seen_q, qi, ci, scored, best,
                   review, result, scoreVars, odmpVars, batchVars, retryVars, nameVars, scenVars, moreVars>>

\* "if title and title not in seen_titles_for_query": the URLs one result list adds
RECURSIVE NewUrlsLF(_, _)
NewUrlsLF(titles, seen) ==
    IF titles = <<>> THEN <<>>
    ELSE IF Head(titles) \in seen THEN NewUrlsLF(Tail(titles), seen)
    ELSE <<UrlOf(Head(titles))>> \o NewUrlsLF(Tail(titles), seen \cup {Head(titles)})

\* one turn of "for q in query_variants"; an exception of the request leaves
\* through the outer except
LF_Query ==
    /\ impl = "lf" /\ pc = "queries" /\ qi < NumQueriesLF(ctx, county)
    /\ fetch_log' = Append(fetch_log, Req("search", qi + 1, TRUE))
    /\ \/ /\ result' = ResultLF(0, 0, <<Note("error", 0)>>, RawTitle(0), TRUE)
          /\ pc' = "done"
          /\ UNCHANGED <<candidates, seen_q, qi>>
       \/ \E titles \in RankedSeqs(Pages) :
            /\ candidates' = candidates \o NewUrlsLF(titles, seen_q)
            /\ seen_q' = seen_q \cup Range(titles)
            /\ qi' = qi + 1
            /\ UNCHANGED <<pc, result>>
    /\ UNCHANGED <<impl, ctx, county, threshold, have_items, ci, scored, best, review,
                   scoreVars, odmpVars, batchVars, retryVars, nameVars, scenVars, moreVars>>

LF_QueriesDone ==
    /\ impl = "lf" /\ pc = "queries" /\ qi = NumQueriesLF(ctx, county)
    /\ pc' = "scoring"
    /\ UNCHANGED <<impl, ctx, county, threshold, have_items, candidates, seen_q, qi, ci,
                   scored, fetch_log, best, review, result, scoreVars, odmpVars, batchVars,
                   retryVars, nameVars, scenVars, moreVars>>

\* the scoring loop without its seen_titles test
AlreadySeenLF_never(title, seen_titles) == FALSE

\* "if title in seen_titles: continue"
AlreadySeenLF(title, seen_titles) == title \in seen_titles

ScoredIds == {scored[i].id : i \in 1..Len(scored)}

\* a tie replaces the best candidate found so far
Better_or_equal(score, best_score) == score >= best_score

\* "if score > best_score" (resolve_best: "score > best['score']")
Better(score, best_score) == score > best_score

\* one turn of "for url in candidates"
LF_Score ==
    /\ impl = "lf" /\ pc = "scoring" /\ ci <= Len(candidates)
    /\ LET url == candidates[ci]
           title == TitleOfUrl(url)
       IN  IF AlreadySeenLF(title, ScoredIds)
           THEN UNCHANGED <<scored, fetch_log, best>>
           ELSE \E d \in PassDocsLF(title, ctx, county) : \E labels \in LabelIds(d) :
                  LET sc == ScoreLF(d, ctx, county)
                      traits == IF d.qid = 0 THEN <<>>
                                ELSE <<Req("entity", d.qid, FALSE)>> \o EntityReqs(labels)
                  IN  /\ scored' = Append(scored, [id |-> title, score |-> sc.score])
                      /\ fetch_log' = fetch_log \o <<Req("summary", title.page, FALSE)>> \o traits
                      /\ best' = IF Better(sc.score, best.score)
                                 THEN [url |-> url, score |-> sc.score, notes |-> sc.notes,
                                       id |-> title]
                                 ELSE best
    /\ ci' = ci + 1
    /\ UNCHANGED <<impl, pc, ctx, county, threshold, have_items, candidates, seen_q, qi,
                   review, result, scoreVars, odmpVars, batchVars, retryVars, nameVars, scenVars, moreVars>>

\* line 624 without the comparison: the best URL is returned whatever its score
AcceptedLF_any(best_url, best_score) == best_url

\* "accepted_url = best_url if best_score >= 75 else None"
AcceptedLF(best_url, best_score) == IF best_score >= 75 THEN best_url ELSE 0

LF_Decide ==
    /\ impl = "lf" /\ pc = "scoring" /\ ci > Len(candidates)
    /\ result' = ResultLF(AcceptedLF(best.url, best.score), Max(best.score, 0), best.notes,
                          best.id, FALSE)
    /\ pc' = "done"
    /\ UNCHANGED <<impl, ctx, county, threshold, have_items, candidates, seen_q, qi, ci,
                   scored, fetch_log, best, review, scoreVars, odmpVars, batchVars,
                   retryVars, nameVars, scenVars, moreVars>>

(***************************************************************************)
(* WikipediaEnhancer.resolve_best                                          *)
(***************************************************************************)
ResultRB(url, status, conf, notes, title, rows) ==
    [url |-> url, status |-> status, confidence |-> conf, notes |-> notes, title |-> title,
     review |-> rows, error |-> FALSE, raised |-> FALSE]

\* add_candidate: "if title not in candidates"
RECURSIVE add_candidates(_, _)
add_candidates(cands, titles) ==
    IF titles = <<>> THEN cands
    ELSE add_candidates(IF Head(titles) \in Range(cands) THEN cands
                        ELSE Append(cands, Head(titles)),
                        Tail(titles))

\* Direct title attempt: a 200 adds the name itself as a title
RB_Direct ==
    /\ impl = "rb" /\ pc = "direct"
    /\ \E ok \in BOOLEAN :
         candidates' = IF ok THEN add_candidates(candidates, <<NamePage>>) ELSE candidates
    /\ fetch_log' = Append(fetch_log, Req("title", NamePage, FALSE))
    /\ pc' = "queries"
    /\ UNCHANGED <<impl, ctx, county, threshold, have_items, seen_q, qi, ci, scored, best,
                   review, result, scoreVars, odmpVars, batchVars, retryVars, nameVars, scenVars, moreVars>>

\* one turn of "for q in queries"; a failed request adds nothing
RB_Query ==
    /\ impl = "rb" /\ pc = "queries" /\ qi < NumQueriesRB(ctx, county)
    /\ \E titles \in RankedSeqs(Pages) :
         candidates' = add_candidates(candidates, titles)
    /\ fetch_log' = Append(fetch_log, Req("search", qi + 1, FALSE))
    /\ qi' = qi + 1
    /\ UNCHANGED <<impl, pc, ctx, county, threshold, have_items, seen_q, ci, scored, best,
                   review, result, scoreVars, odmpVars, batchVars, retryVars, nameVars, scenVars, moreVars>>

\* the enwiki titles of the items whose entity document came back
RECURSIVE SitelinkTitles(_, _)
SitelinkTitles(items, okset) ==
    IF items = <<>> THEN <<>>
    ELSE (IF Head(items) \in okset /\ Sitelink(Head(items)) # 0
          THEN <<Sitelink(Head(items))>> ELSE <<>>)
         \o SitelinkTitles(Tail(items), okset)

\* wbsearchentities, then one entity document per hit; an exception of an
\* entity request ends the whole block (cut: the hits handled before it)
RB_Wikidata ==
    /\ impl = "rb" /\ pc = "queries" /\ qi = NumQueriesRB(ctx, county)
    /\ \E items \in RankedSeqs(Qids) : \E okset \in SUBSET Range(items) :
       \E cut \in 0..Len(items) :
         LET asked == SubSeq(items, 1, Min(cut + 1, Len(items)))
             handled == SubSeq(items, 1, cut)
         IN  /\ fetch_log' = Append(fetch_log, Req("wbsearch", 0, FALSE)) \o EntityReqs(asked)
             /\ candidates' = add_candidates(candidates, SitelinkTitles(handled, okset))
    /\ pc' = "extracts"
    /\ UNCHANGED <<impl, ctx, county, threshold, have_items, seen_q, qi, ci, scored, best,
                   review, result, scoreVars, odmpVars, batchVars, retryVars, nameVars, scenVars, moreVars>>

\* the batch request for extracts and pageprops, made only when there are titles
RB_Extracts ==
    /\ impl = "rb" /\ pc = "extracts"
    /\ IF candidates # <<>>
       THEN /\ fetch_log' = Append(fetch_log, Req("extracts", 0, FALSE))
            /\ have_items' \in BOOLEAN
       ELSE UNCHANGED <<fetch_log, have_items>>
    /\ pc' = "scoring"
    /\ UNCHANGED <<impl, ctx, county, threshold, candidates, seen_q, qi, ci, scored, best,
                   review, result, scoreVars, odmpVars, batchVars, retryVars, nameVars, scenVars, moreVars>>

\* the documents resolve_best can see for a title whose item is q (0: none);
\* "'(disambiguation)' in tl" is decided by the title
PassDocsRB(title, q, cx, cty) ==
    { [d EXCEPT !.disamb_title = Disambiguation(title)] :
        d \in { x \in DocsRB(cx, cty, {1000}, {FALSE}) :
                  /\ x.tokens /\ x.last_eq /\ x.first_ok
                  /\ x.is_human => q # 0
                  /\ x.hits = (IF x.florida THEN cx ELSE {})
                  /\ x.us = x.florida /\ x.county_hit = (cty /\ x.florida) } }

\* one turn of "for title, c in candidates.items()"
RB_Score ==
    /\ impl = "rb" /\ pc = "scoring" /\ ci <= Len(candidates)
    /\ LET title == candidates[ci]
           q == IF have_items THEN WikibaseItem(title) ELSE 0
       IN  \E d \in PassDocsRB(title, q, ctx, county) :
             LET sc == ScoreRB(d, ctx, county)
                 row == [url |-> UrlOf(title), score |-> sc.score, notes |-> sc.notes,
                         id |-> RawTitle(title)]
             IN  /\ scored' = Append(scored, [id |-> RawTitle(title), score |-> sc.score])
                 /\ fetch_log' = IF q # 0 THEN Append(fetch_log, Req("entity", q, FALSE))
                                 ELSE fetch_log
                 /\ best' = IF best.url = 0 \/ Better(sc.score, best.score) THEN row
                            ELSE best
    /\ ci' = ci + 1
    /\ UNCHANGED <<impl, pc, ctx, county, threshold, have_items, candidates, seen_q, qi,
                   review, result, scoreVars, odmpVars, batchVars, retryVars, nameVars, scenVars, moreVars>>

\* line 404 without the "best and" test
AcceptedRB_unguarded(b, acceptance_threshold) == b.score >= acceptance_threshold

\* "if best and best['score'] >= self.acceptance_threshold"
AcceptedRB(b, acceptance_threshold) == b.url # 0 /\ b.score >= acceptance_threshold

RB_Decide ==
    /\ impl = "rb" /\ pc = "scoring" /\ ci > Len(candidates)
    /\ result' = IF AcceptedRB(best, threshold)
                 THEN ResultRB(best.url, "Found", best.score, best.notes, best.id, scored)
                 ELSE ResultRB(0, "Not Found", IF best.url # 0 THEN best.score ELSE 0,
                               IF best.url # 0 THEN best.notes
                               ELSE <<Note("no-candidates", 0)>>,
                               best.id, scored)
    /\ pc' = "done"
    /\ UNCHANGED <<impl, ctx, county, threshold, have_items, candidates, seen_q, qi, ci,
                   scored, fetch_log, best, review, scoreVars, odmpVars, batchVars,
                   retryVars, nameVars, scenVars, moreVars>>

(***************************************************************************)
(* Find-A-Grave: choose_best_memorial_for_query                            *)
(***************************************************************************)
\* the anchors of a results page that match MEMORIAL_RE: memorial id and
\* the heuristic score of the anchor (last name +2, first name +1, container +2)
HeurScores == {0, 2, 3}
Anchors == UNION { [1..n -> [id : MemIds, hs : HeurScores]] : n \in 0..MaxAnchors }

\* the loop of parse_search_results_for_candidates
RECURSIVE KeepAnchors(_, _, _, _)
KeepAnchors(as, kept, seen_ids, max_candidates) ==
    IF as = <<>> THEN kept
    ELSE LET a == Head(as)
         IN  IF a.id \in seen_ids THEN KeepAnchors(Tail(as), kept, seen_ids, max_candidates)
             ELSE IF a.hs > 0 \/ Len(kept) < max_candidates * 2
                  THEN KeepAnchors(Tail(as), Append(kept, a), seen_ids \cup {a.id},
                                   max_candidates)
                  ELSE KeepAnchors(Tail(as), kept, seen_ids, max_candidates)

\* candidates.sort(key=lambda x: x[1], reverse=True): stable, highest first
RECURSIVE SortByScoreDesc(_, _)
SortByScoreDesc(cs, level) ==
    IF level < 0 THEN <<>>
    ELSE SelectSeq(cs, LAMBDA c : c.hs = level) \o SortByScoreDesc(cs, level - 1)

parse_search_results_for_candidates(as, max_candidates) ==
    LET sorted == SortByScoreDesc(KeepAnchors(as, <<>>, {}, max_candidates), 5)
        top == SubSeq(sorted, 1, Min(Len(sorted), max_candidates))
    IN  [i \in 1..Len(top) |-> top[i].id]

ResultFG(url, score) ==
    [url |-> url, status |-> IF url # 0 THEN "Selected" ELSE "None", confidence |-> score,
     notes |-> <<>>, title |-> RawTitle(0), review |-> <<>>, error |-> FALSE,
     raised |-> FALSE]

\* search_findagrave_candidates: a failed or non-200 search gives no candidates
FG_Search ==
    /\ impl = "fg" /\ pc = "search"
    /\ fetch_log' = Append(fetch_log, Req("fgsearch", 0, FALSE))
    /\ \E ok \in BOOLEAN : \E as \in Anchors :
         /\ ok \/ as = <<>>
         /\ candidates' = IF ok THEN parse_search_results_for_candidates(as, MAX_CANDIDATES)
                          ELSE <<>>
    /\ pc' = "scoring"
    /\ UNCHANGED <<impl, ctx, county, threshold, have_items, seen_q, qi, ci, scored, best,
                   review, result, scoreVars, odmpVars, batchVars, retryVars, nameVars, scenVars, moreVars>>

PassDocsFG ==
    { d \in DocsFG({0, 1000}) :
        /\ ~d.state_str_hit /\ ~d.pref_name_hit /\ ~d.pref_abbr_hit
        /\ d.death_match = d.birth_match }

\* one turn of "for url in candidates": a failed fetch skips the candidate
FG_Score ==
    /\ impl = "fg" /\ pc = "scoring" /\ ci <= Len(candidates)
    /\ fetch_log' = Append(fetch_log, Req("memorial", candidates[ci], TRUE))
    /\ \/ UNCHANGED <<scored, best>>
       \/ \E d \in PassDocsFG :
            LET score == ScoreFG(d)
            IN  /\ scored' = Append(scored, [id |-> RawTitle(candidates[ci]), score |-> score])
                /\ best' = IF Better(score, best.score)
                           THEN [url |-> candidates[ci], score |-> score, notes |-> <<>>,
                                 id |-> RawTitle(candidates[ci])]
                           ELSE best
    /\ ci' = ci + 1
    /\ UNCHANGED <<impl, pc, ctx, county, threshold, have_items, candidates, seen_q, qi,
                   review, result, scoreVars, odmpVars, batchVars, retryVars, nameVars, scenVars, moreVars>>

\* "if best_score >= MIN_SCORE_TO_ACCEPT: return best_url, ... else: return None, ..."
AcceptedFG(best_url, best_score) == IF best_score >= MIN_SCORE_TO_ACCEPT THEN best_url ELSE 0

FG_Decide ==
    /\ impl = "fg" /\ pc = "scoring" /\ ci > Len(candidates)
    /\ result' = ResultFG(AcceptedFG(best.url, best.score), best.score)
    /\ pc' = "done"
    /\ UNCHANGED <<impl, ctx, county, threshold, have_items, candidates, seen_q, qi, ci,
                   scored, fetch_log, best, review, scoreVars, odmpVars, batchVars,
                   retryVars, nameVars, scenVars, moreVars>>

(***************************************************************************)
(* The manual-review output of the two Wikipedia tools                     *)
(***************************************************************************)
ReviewRow == [title |-> result.title, confidence |-> result.confidence, notes |-> result.notes]

\* process_csv: "if (not wikipedia_url and conf > 0) or (wikipedia_url and conf < 85)"
LF_Report ==
    /\ impl = "lf" /\ pc = "done"
    /\ review' = IF \/ result.url = 0 /\ result.confidence > 0
                    \/ result.url # 0 /\ result.confidence < 85
                 THEN Append(review, ReviewRow) ELSE review
    /\ pc' = "reported"
    /\ UNCHANGED <<impl, ctx, county, threshold, have_items, candidates, seen_q, qi, ci,
                   scored, fetch_log, best, result, scoreVars, odmpVars, batchVars,
                   retryVars, nameVars, scenVars, moreVars>>

\* enhance_csv_with_retry: "if resolved['status'] == 'Not Found'"
RB_Report ==
    /\ impl = "rb" /\ pc = "done" /\ ~result.raised
    /\ review' = IF result.status = "Not Found" THEN Append(review, ReviewRow) ELSE review
    /\ pc' = "reported"
    /\ UNCHANGED <<impl, ctx, county, threshold, have_items, candidates, seen_q, qi, ci,
                   scored, fetch_log, best, result, scoreVars, odmpVars, batchVars,
                   retryVars, nameVars, scenVars, moreVars>>

Next ==
    \/ LF_Direct \/ LF_Query \/ LF_QueriesDone \/ LF_Score \/ LF_Decide \/ LF_Report
    \/ RB_Direct \/ RB_Query \/ RB_Wikidata \/ RB_Extracts \/ RB_Score \/ RB_Decide
    \/ RB_Report
    \/ FG_Search \/ FG_Score \/ FG_Decide

Spec == InitPass /\ [][Next]_vars

(***************************************************************************)
(* Properties of a resolution pass                                         *)
(***************************************************************************)
Finished == pc = "done" /\ ~result.error

\* the threshold each resolution compares with
threshold_used ==
    CASE impl = "lf" -> 75 [] impl = "rb" -> threshold [] impl = "fg" -> MIN_SCORE_TO_ACCEPT

Accepted == result.status \in {"Found", "Selected"}

\* C1 -- a finished resolution returns a URL exactly when its decision is
\* Accepted, which is exactly when some scored candidate reaches the threshold
\* in use; the URL returned is that of the best candidate, whose score is at
\* least the threshold and at least every other candidate's score.
C1_AcceptedIffThreshold ==
    Finished =>
        /\ (result.url # 0) <=> Accepted
        /\ (result.url # 0) <=>
               \E i \in 1..Len(scored) : scored[i].score >= threshold_used
        /\ (result.url # 0) =>
               /\ result.url = best.url
               /\ best.score >= threshold_used
               /\ result.confidence = best.score
               /\ \E i \in 1..Len(scored) :
                    scored[i].id = best.id /\ scored[i].score = best.score
               /\ \A i \in 1..Len(scored) : scored[i].score <= best.score

\* the link finder accepts one of two scored candidates, the other below 75
C1_Witness ==
    /\ Finished /\ impl = "lf" /\ result.url # 0 /\ Len(scored) >= 2
    /\ \E i \in 1..Len(scored) : scored[i].score < 75

\* C4 -- within a pass no candidate identifier (page title, memorial id) is
\* scored more than once, whatever the direct lookup and the queries returned.
C4_ScoredOnce ==
    \A i, j \in 1..Len(scored) : i # j => scored[i].id # scored[j].id

\* the direct lookup and a query both returned the same page and the pass
\* scored it once
C4_Witness ==
    /\ pc = "done" /\ impl = "lf" /\ ~result.error
    /\ \E i, j \in 1..Len(candidates) : i # j /\ candidates[i] = candidates[j]
    /\ Len(scored) < Len(candidates)

DocumentKinds == {"summary", "entity"}

\* C5 -- within a pass no document URL (page summary, Wikidata entity JSON)
\* is requested more than once.
C5_FetchedOnce ==
    \A i, j \in 1..Len(fetch_log) :
        (i # j /\ fetch_log[i].kind \in DocumentKinds) =>
            ~(fetch_log[i].kind = fetch_log[j].kind /\ fetch_log[i].key = fetch_log[j].key)

\* C6 -- a pass that generated no candidate ends Rejected: no URL, no best
\* candidate, confidence 0, no alternates, and the result is returned, not raised.
C6_NoCandidatesRejected ==
    (pc = "done" /\ candidates = <<>>) =>
        /\ result.url = 0 /\ ~Accepted
        /\ result.title = RawTitle(0)
        /\ result.confidence = 0
        /\ result.review = <<>>
        /\ ~result.raised

\* resolve_best ran its direct lookup, every query and the Wikidata search
\* and none gave a title
C6_Witness ==
    /\ pc = "done" /\ impl = "rb" /\ candidates = <<>>
    /\ \E i \in 1..Len(fetch_log) : fetch_log[i].kind = "entity"

(***************************************************************************)
(* SpecODMP: one ODMPScraper object; its callers call _collect_officers,   *)
(* search_officer and close in any order.                                  *)
(***************************************************************************)
MaxOfficers == 2
MaxCalls == 3
DEFAULT_THRESHOLD == 92

OfficerUrls == 1..MaxOfficers
\* the h1 of a profile page: raw names are numbered, two spellings (case,
\* spacing) for each normalized name
NameOf(url) == 2 * url
\* " ".join(name.lower().split())
_normalize_name(name) == name \div 2
\* the names callers search for: a respelling of officer 1's name, officer 2's
\* name as the site spells it, and a name far from every officer's
QueryNames == {3, 4, 2 * MaxOfficers + 6}

Dist(a, b) == IF a >= b THEN a - b ELSE b - a
\* the three rapidfuzz ratios of two normalized names, by how far apart they are
token_sort_ratio(n1, n2) ==
    CASE Dist(n1, n2) = 0 -> 100 [] Dist(n1, n2) = 1 -> 85 [] Dist(n1, n2) = 2 -> 70 [] OTHER -> 50
token_set_ratio(n1, n2) ==
    CASE Dist(n1, n2) = 0 -> 100 [] Dist(n1, n2) = 1 -> 92 [] Dist(n1, n2) = 2 -> 75 [] OTHER -> 55
partial_ratio(n1, n2) ==
    CASE Dist(n1, n2) = 0 -> 100 [] Dist(n1, n2) = 1 -> 90 [] Dist(n1, n2) = 2 -> 80 [] OTHER -> 60

\* _is_fuzzy_match: (best_score >= self.threshold, best_score)
_is_fuzzy_match(name_from_site, target_name) ==
    LET n1 == _normalize_name(name_from_site)
        n2 == _normalize_name(target_name)
        best_score == Max(token_sort_ratio(n1, n2),
                          Max(token_set_ratio(n1, n2), partial_ratio(n1, n2)))
    IN  [is_match |-> best_score >= DEFAULT_THRESHOLD, score |-> best_score]

\* the browse pages: one profile URL per card, a URL possibly on two cards
Registries == UNION { [1..n -> OfficerUrls] : n \in 0..MaxOfficers }

InitODMP ==
    /\ registry \in Registries
    /\ officers_cache = NoCache /\ driver = FALSE /\ enumerations = 0
    /\ visits = <<>> /\ odmp_calls = <<>>
    /\ odmp_ret = [op |-> "new", kind |-> "none", name |-> 0, url |-> 0, score |-> 0,
                   visited |-> <<>>, was_cached |-> FALSE]
    /\ IdleScore /\ IdleRes /\ IdleBatch /\ IdleRetry /\ IdleName /\ IdleScen /\ IdleMore

\* the card loop of _collect_officers: cards whose click fails are skipped, a
\* URL already seen is not added again, a page without h1 gives name None (0)
RECURSIVE WalkCards(_, _, _, _, _)
WalkCards(cards, i, skipped, nameless, officers) ==
    IF i > Len(cards) THEN officers
    ELSE LET url == cards[i]
             seen_urls == {officers[k].url : k \in 1..Len(officers)}
         IN  IF i \in skipped \/ url \in seen_urls
             THEN WalkCards(cards, i + 1, skipped, nameless, officers)
             ELSE WalkCards(cards, i + 1, skipped, nameless,
                            Append(officers, [url |-> url,
                                              name |-> IF url \in nameless THEN 0
                                                       ELSE NameOf(url)]))

\* every list one enumeration of the registry can produce
Enumerations(cards) ==
    { WalkCards(cards, 1, skipped, nameless, <<>>) :
        skipped \in SUBSET (1..Len(cards)), nameless \in SUBSET Range(cards) }

\* "if self._officers_cache:" in place of "is not None"
CacheHit_truthy(c) == c.cached /\ c.officers # <<>>

\* "if self._officers_cache is not None: return self._officers_cache"
CacheHit(c) == c.cached

Ret(op, kind, name, url, score, visited, was_cached) ==
    [op |-> op, kind |-> kind, name |-> name, url |-> url, score |-> score,
     visited |-> visited, was_cached |-> was_cached]

\* a call of _collect_officers from outside search_officer
CollectOfficers ==
    /\ Len(odmp_calls) < MaxCalls
    /\ odmp_calls' = Append(odmp_calls, "collect")
    /\ IF CacheHit(officers_cache)
       THEN /\ odmp_ret' = Ret("collect", "list", 0, 0, 0, <<>>, TRUE)
            /\ UNCHANGED <<officers_cache, driver, enumerations>>
       ELSE /\ driver' = TRUE
            /\ enumerations' = enumerations + 1
            /\ \/ \* driver.get(start_url) raises: nothing is cached
                  /\ odmp_ret' = Ret("collect", "raised", 0, 0, 0, <<>>, FALSE)
                  /\ UNCHANGED officers_cache
               \/ \E officers \in Enumerations(registry) :
                    /\ officers_cache' = [cached |-> TRUE, officers |-> officers]
                    /\ odmp_ret' = Ret("collect", "list", 0, 0, 0, <<>>, FALSE)
    /\ UNCHANGED <<registry, visits, scoreVars, resVars, batchVars, retryVars, nameVars, scenVars, moreVars>>

\* the index of the officer the loop of search_officer returns on, 0 if none
FirstMatch_last(officers, name) ==
    LET hits == {i \in 1..Len(officers) :
                   officers[i].name # 0 /\ _is_fuzzy_match(officers[i].name, name).is_match}
    IN  IF hits = {} THEN 0 ELSE CHOOSE i \in hits : \A j \in hits : j <= i

\* "for officer in officers: if officer['name']: ... if is_match: ... return"
FirstMatch(officers, name) ==
    LET hits == {i \in 1..Len(officers) :
                   officers[i].name # 0 /\ _is_fuzzy_match(officers[i].name, name).is_match}
    IN  IF hits = {} THEN 0 ELSE CHOOSE i \in hits : \A j \in hits : i <= j

\* a search that opens each profile to read its name while it compares
VisitsOfSearch_naive(officers, hit) ==
    [i \in 1..(IF hit = 0 THEN Len(officers) ELSE hit) |-> officers[i].url]

\* the pages search_officer opens: the matched profile, and only then
VisitsOfSearch(officers, hit) == IF hit = 0 THEN <<>> ELSE <<officers[hit].url>>

\* the rest of search_officer once the officer list is in hand
SearchIn(officers, name, was_cached) ==
    LET hit == FirstMatch(officers, name)
        opened == VisitsOfSearch(officers, hit)
    IN  /\ visits' = visits \o opened
        /\ IF opened = <<>>
           THEN /\ odmp_ret' = Ret("search", "none", name, 0, 0, opened, was_cached)
                /\ driver' = (driver \/ ~was_cached)
           ELSE /\ driver' = TRUE
                /\ \E ok \in BOOLEAN :
                     odmp_ret' = Ret("search", IF ok THEN "data" ELSE "raised", name,
                                     IF hit = 0 THEN 0 ELSE officers[hit].url,
                                     IF hit = 0 THEN 0
                                     ELSE _is_fuzzy_match(officers[hit].name, name).score,
                                     opened, was_cached)

SearchOfficer ==
    /\ Len(odmp_calls) < MaxCalls
    /\ odmp_calls' = Append(odmp_calls, "search")
    /\ \E name \in QueryNames :
         IF CacheHit(officers_cache)
         THEN /\ SearchIn(officers_cache.officers, name, TRUE)
              /\ UNCHANGED <<officers_cache, enumerations>>
         ELSE /\ enumerations' = enumerations + 1
              /\ \/ \* the collection raises and search_officer with it
                    /\ odmp_ret' = Ret("search", "raised", name, 0, 0, <<>>, FALSE)
                    /\ driver' = TRUE
                    /\ UNCHANGED <<officers_cache, visits>>
                 \/ \E officers \in Enumerations(registry) :
                      /\ officers_cache' = [cached |-> TRUE, officers |-> officers]
                      /\ SearchIn(officers, name, FALSE)
    /\ UNCHANGED <<registry, scoreVars, resVars, batchVars, retryVars, nameVars, scenVars, moreVars>>

\* close(): quits the driver; the cache is kept
Close ==
    /\ Len(odmp_calls) < MaxCalls
    /\ odmp_calls' = Append(odmp_calls, "close")
    /\ driver' = FALSE
    /\ odmp_ret' = Ret("close", "none", 0, 0, 0, <<>>, CacheHit(officers_cache))
    /\ UNCHANGED <<registry, officers_cache, enumerations, visits, scoreVars, resVars,
                   batchVars, retryVars, nameVars, scenVars, moreVars>>

NextODMP == CollectOfficers \/ SearchOfficer \/ Close

SpecODMP == InitODMP /\ [][NextODMP]_vars

(***************************************************************************)
(* Properties of the officer index                                         *)
(***************************************************************************)
\* C7 -- once a collection has completed and stored its list, no later call
\* (_collect_officers, search_officer, close) enumerates the registry again
\* or changes the stored list.
C7_BuildIdempotent ==
    [][officers_cache.cached =>
          /\ officers_cache' = officers_cache
          /\ enumerations' = enumerations]_vars

\* a collection stored an empty list, the scraper was closed, and a later
\* search ran on the stored list without a second enumeration
C7_Witness ==
    /\ officers_cache.cached /\ officers_cache.officers = <<>> /\ registry # <<>>
    /\ enumerations = 1
    /\ \E i, j \in 1..Len(odmp_calls) :
         i < j /\ odmp_calls[i] = "close" /\ odmp_calls[j] = "search"
    /\ odmp_ret.op = "search" /\ odmp_ret.was_cached

\* C8 -- a search on a cached index opens no page while it compares names:
\* without a match it opens nothing, with a match it opens the matched
\* officer's profile and nothing else.
C8_InMemoryMatch ==
    (odmp_ret.op = "search" /\ odmp_ret.was_cached) =>
        /\ odmp_ret.kind = "none" => odmp_ret.visited = <<>>
        /\ odmp_ret.kind # "none" => odmp_ret.visited = <<odmp_ret.url>>
        /\ Len(odmp_ret.visited) <= 1

\* a cached search matched the second officer of a two-officer index
C8_Witness ==
    /\ odmp_ret.op = "search" /\ odmp_ret.was_cached /\ odmp_ret.kind = "data"
    /\ Len(officers_cache.officers) >= 2
    /\ odmp_ret.url = officers_cache.officers[2].url

\* the indices of the cached entries that qualify for the last searched name
Qualifying ==
    { i \in 1..Len(officers_cache.officers) :
        /\ officers_cache.officers[i].name # 0
        /\ Max(token_sort_ratio(_normalize_name(officers_cache.officers[i].name),
                                _normalize_name(odmp_ret.name)),
               Max(token_set_ratio(_normalize_name(officers_cache.officers[i].name),
                                   _normalize_name(odmp_ret.name)),
                   partial_ratio(_normalize_name(officers_cache.officers[i].name),
                                 _normalize_name(odmp_ret.name)))) >= DEFAULT_THRESHOLD }

Searched == odmp_ret.op = "search" /\ officers_cache.cached

MaxNames == 2

\* inputs: 1 a plain person name, 2 a person name with punctuation, 3 a
\* highway designation naming person 1
BatchNames == {1, 2, 3}
Sources == {"odmp", "wikidata", "ai"}

\* process_name: the cleaned name (4: name 2 without its punctuation) and the type
process_name(name) ==
    CASE name = 1 -> [cleaned |-> 1, type |-> "person"]
      [] name = 2 -> [cleaned |-> 4, type |-> "person"]
      [] name = 3 -> [cleaned |-> 1, type |-> "highway"]

PersonRecord(input_name, cleaned_name, input_type, odmp_url, wikipedia_link, ai_summary) ==
    [input_name |-> input_name, cleaned_name |-> cleaned_name, input_type |-> input_type,
     odmp_url |-> odmp_url, wikipedia_link |-> wikipedia_link, ai_summary |-> ai_summary]

InitBatch ==
    /\ names \in UNION { [1..n -> BatchNames] : n \in 0..MaxNames }
    /\ enabled \in SUBSET Sources
    /\ output_file \in BOOLEAN
    /\ bi = 1 /\ results = <<>> /\ b_pc = "loop"
    /\ b_index = [cached |-> FALSE, failed_at |-> 0]
    /\ IdleScore /\ IdleRes /\ IdleODMP /\ IdleRetry /\ IdleName /\ IdleScen /\ IdleMore

\* what each source can do for one name: search_officer returns None or a
\* profile or raises; get_person_info returns fields with or without a
\* Wikipedia link or raises; extract_data returns a summary or nothing
\* "index_raise": the enumeration of _collect_officers raised, which it can
\* only while self._officers_cache is None
OdmpOutcomes ==
    IF "odmp" \in enabled
    THEN {"none", "match", "raise"} \cup (IF b_index.cached THEN {} ELSE {"index_raise"})
    ELSE {"off"}
WikidataOutcomes ==
    IF "wikidata" \in enabled THEN {"nolink", "link", "raise"} ELSE {"off"}

\* an AI block that does not look at record.wikipedia_link
AiOutcomes_unguarded(wd) == IF "ai" \in enabled THEN {"summary", "empty"} ELSE {"off"}

\* "if self.enable_ai and self._ai and record.wikipedia_link"
AiOutcomes(wd) == IF "ai" \in enabled /\ wd = "link" THEN {"summary", "empty"} ELSE {"off"}

\* scrape_person: the record, or "raise" when a source raised
scrape_person(name, od, wd, ai) ==
    IF od \in {"raise", "index_raise"} \/ wd = "raise" THEN [raised |-> TRUE, record |-> None]
    ELSE [raised |-> FALSE,
          record |-> PersonRecord(name, process_name(name).cleaned, process_name(name).type,
                                  od = "match", wd = "link", ai = "summary")]

\* an except branch that only prints
OnError_drop(rs, name) == rs

\* "record = PersonRecord(input_name=name, cleaned_name=name); results.append(record)"
OnError(rs, name) == Append(rs, PersonRecord(name, name, "", FALSE, FALSE, FALSE))

\* one turn of "for i, name in enumerate(names, 1)"
ScrapeBatchStep ==
    /\ b_pc = "loop" /\ bi <= Len(names)
    /\ \E od \in OdmpOutcomes : \E wd \in WikidataOutcomes : \E ai \in AiOutcomes(wd) :
         LET out == scrape_person(names[bi], od, wd, ai)
         IN  /\ results' = IF out.raised THEN OnError(results, names[bi])
                           ELSE Append(results, out.record)
             /\ b_index' = CASE od = "index_raise" ->
                                   [b_index EXCEPT !.failed_at =
                                        IF b_index.failed_at = 0 THEN bi ELSE @]
                              [] od \in {"none", "match", "raise"} ->
                                   [b_index EXCEPT !.cached = TRUE]
                              [] OTHER -> b_index
    /\ bi' = bi + 1
    /\ UNCHANGED <<names, enabled, output_file, b_pc, scoreVars, resVars, odmpVars, retryVars, nameVars, scenVars, moreVars>>

\* after the loop: _save_to_csv when an output file was given, then return
ScrapeBatchReturn ==
    /\ b_pc = "loop" /\ bi > Len(names)
    /\ \E saved \in BOOLEAN :
         /\ saved \/ output_file
         /\ b_pc' = IF saved THEN "returned" ELSE "save_raised"
    /\ UNCHANGED <<names, bi, results, enabled, output_file, b_index, scoreVars, resVars,
                   odmpVars, retryVars, nameVars, scenVars, moreVars>>

NextBatch == ScrapeBatchStep \/ ScrapeBatchReturn

SpecBatch == InitBatch /\ [][NextBatch]_vars

\* C10 -- whatever names raise, scrape_batch handles the names in order and
\* adds exactly one record for each: after k names the results are the records
\* of the first k names, and the list it returns has one record per input name.
C10_OneRecordPerName ==
    b_pc # "idle" =>
        /\ Len(results) = bi - 1
        /\ \A i \in 1..Len(results) : results[i].input_name = names[i]
        /\ b_pc = "returned" => Len(results) = Len(names)

\* a batch returned after its first name raised and a later name did not
C10_Witness ==
    /\ b_pc = "returned" /\ Len(names) >= 2
    /\ results[1].input_type = ""
    /\ \E i \in 2..Len(results) : results[i].input_type # ""

(***************************************************************************)
(* Failure handling and pacing of a resolution pass                        *)
(***************************************************************************)
\* C11 -- a failed request does not abort the resolution: a Wikipedia pass
\* that ends has not ended in its error result, and every candidate it had
\* gathered was scored.
C11_FailureKeepsCandidates ==
    (pc = "done" /\ impl \in {"lf", "rb"}) =>
        /\ ~result.error
        /\ \A i \in 1..Len(candidates) :
             \E k \in 1..Len(scored) :
                scored[k].id = (IF impl = "lf" THEN TitleOfUrl(candidates[i])
                                ELSE RawTitle(candidates[i]))

\* C12 -- a failed enumeration of the officer index is fatal for the batch:
\* once _collect_officers has raised for a name, no later name is processed
\* and the batch does not return a result list.
C12_IndexFailureFatal ==
    b_index.failed_at # 0 =>
        /\ bi <= b_index.failed_at + 1
        /\ Len(results) <= b_index.failed_at
        /\ b_pc # "returned"

(***************************************************************************)
(* SpecRetry: process_person_with_retry of ImprovedMemorialEnhancer        *)
(* ("retry", enhance_memorial_with_retry.py) and of MemorialDataEnhancer   *)
(* ("data", enhance_memorial_data.py), one call.                           *)
(***************************************************************************)
max_retries == 3

\* what an attempt can raise: the cause, and what the tests below find in
\* str(e).  Person wraps every error as "Failed to process {url}: ...", so
\* the message of any error holds the URL.
Message(cause, m429, rate, capacity, rate_limit, too_many) ==
    [cause |-> cause, has_429 |-> m429, has_rate |-> rate, has_capacity |-> capacity,
     has_rate_limit |-> rate_limit, has_too_many |-> too_many]

Errors ==
    { \* "... 429 Too Many Requests"
      Message("throttle", TRUE, FALSE, FALSE, FALSE, TRUE),
      \* "... Rate limit exceeded"
      Message("throttle", FALSE, TRUE, FALSE, TRUE, FALSE),
      \* "... Service tier capacity exceeded"
      Message("throttle", FALSE, FALSE, TRUE, FALSE, FALSE),
      \* "Failed to process https://en.wikipedia.org/wiki/John_Doe: Insufficient content ..."
      Message("other", FALSE, FALSE, FALSE, FALSE, FALSE),
      \* "Failed to process https://en.wikipedia.org/wiki/John_Prater: Insufficient content ..."
      Message("other", FALSE, TRUE, FALSE, FALSE, FALSE) }

\* '"429" in error_msg or "rate" in error_msg.lower() or "capacity exceeded" in ...'
IsRateLimitRetry(e) == e.has_429 \/ e.has_rate \/ e.has_capacity
\* '"rate limit" in error_msg or "too many requests" in error_msg'
IsRateLimitData(e) == e.has_rate_limit \/ e.has_too_many

RECURSIVE Pow(_, _)
Pow(b, n) == IF n = 0 THEN 1 ELSE b * Pow(b, n - 1)

\* handle_rate_limit_error: FALSE at the last attempt, else the seconds slept
\* (5 * 3^attempt plus a jitter of up to 5)
BackoffRetry(a, jitter) == 5 * Pow(3, a) + jitter
\* exponential_backoff: base_delay * 2^attempt plus a jitter of up to 1, capped at 60
BackoffData(a, jitter) == Min(2 * Pow(2, a) + jitter, 60)

\* what the getters of Person return, and "x if x else ''"
Values == {"None", "", "text"}
Formatted(v) == IF v \in {"None", ""} THEN "" ELSE v

\* a loop that is one turn shorter
RangeLen_short(i) == max_retries - 1

\* range(self.rate_limiter.max_retries + 1) / range(self.rate_limiter.max_retries)
RangeLen(i) == IF i = "retry" THEN max_retries + 1 ELSE max_retries

InitRetry ==
    /\ r_impl \in {"retry", "data"}
    /\ r_pc = "loop" /\ attempt = 0 /\ attempts_log = <<>> /\ sleeps = <<>>
    /\ counts = [success |-> 0, rate_limit |-> 0, error |-> 0]
    /\ r_result = [summary |-> "", dob |-> ""]
    /\ IdleScore /\ IdleRes /\ IdleODMP /\ IdleBatch /\ IdleName /\ IdleScen /\ IdleMore

\* one turn of "for attempt in range(...)" that ends in "return result"
AttemptSucceeds ==
    /\ r_pc = "loop" /\ attempt < RangeLen(r_impl)
    /\ \E summary \in Values : \E dob \in Values :
         r_result' = [summary |-> Formatted(summary), dob |-> Formatted(dob)]
    /\ attempts_log' = Append(attempts_log, "ok")
    /\ counts' = [counts EXCEPT !.success = @ + 1]
    /\ r_pc' = "returned"
    /\ UNCHANGED <<r_impl, attempt, sleeps, scoreVars, resVars, odmpVars, batchVars, nameVars, scenVars, moreVars>>

\* one turn that ends in the except branch, in ImprovedMemorialEnhancer
AttemptFailsRetry ==
    /\ r_impl = "retry" /\ r_pc = "loop" /\ attempt < RangeLen(r_impl)
    /\ \E e \in Errors : \E jitter \in {0, 5} :
         /\ attempts_log' = Append(attempts_log, e.cause)
         /\ IF IsRateLimitRetry(e)
            THEN IF attempt >= max_retries
                 THEN \* handle_rate_limit_error gives False: break, then the
                      \* code after the loop
                      /\ counts' = [counts EXCEPT !.rate_limit = @ + 1, !.error = @ + 1]
                      /\ r_pc' = "returned"
                      /\ UNCHANGED <<attempt, sleeps>>
                 ELSE /\ counts' = [counts EXCEPT !.rate_limit = @ + 1]
                      /\ sleeps' = Append(sleeps, BackoffRetry(attempt, jitter))
                      /\ attempt' = attempt + 1
                      /\ UNCHANGED r_pc
            ELSE /\ counts' = [counts EXCEPT !.error = @ + 1]
                 /\ r_pc' = "returned"
                 /\ UNCHANGED <<attempt, sleeps>>
    /\ UNCHANGED <<r_impl, r_result, scoreVars, resVars, odmpVars, batchVars, nameVars, scenVars, moreVars>>

\* one turn that ends in the except branch, in MemorialDataEnhancer
AttemptFailsData ==
    /\ r_impl = "data" /\ r_pc = "loop" /\ attempt < RangeLen(r_impl)
    /\ \E e \in Errors : \E jitter \in {0, 1} :
         /\ attempts_log' = Append(attempts_log, e.cause)
         /\ counts' = IF IsRateLimitData(e) /\ attempt < max_retries - 1 THEN counts
                      ELSE [counts EXCEPT !.error = @ + 1]
         /\ IF IsRateLimitData(e) /\ attempt < max_retries - 1
            THEN /\ sleeps' = Append(sleeps, BackoffData(attempt, jitter))
                 /\ attempt' = attempt + 1
                 /\ UNCHANGED r_pc
            ELSE /\ r_pc' = "returned"
                 /\ UNCHANGED <<attempt, sleeps>>
    /\ UNCHANGED <<r_impl, r_result, scoreVars, resVars, odmpVars, batchVars, nameVars, scenVars, moreVars>>

NextRetry == AttemptSucceeds \/ AttemptFailsRetry \/ AttemptFailsData

SpecRetry == InitRetry /\ [][NextRetry]_vars

\* C13 -- process_person_with_retry makes at most max_retries + 1 attempts,
\* every attempt that was followed by another one failed with a throttling
\* error, and a call that returns after a failed attempt returns the
\* all-empty result.
C13_RetryBounded ==
    r_pc # "idle" =>
        /\ Len(attempts_log) <= max_retries + 1
        /\ \A i \in 1..(Len(attempts_log) - 1) : attempts_log[i] = "throttle"
        /\ (r_pc = "returned" /\ attempts_log # <<>>
              /\ attempts_log[Len(attempts_log)] # "ok") =>
               r_result = [summary |-> "", dob |-> ""]

\* C14 -- every request a Wikipedia resolution issues (title lookup, search
\* variant, page summary, Wikidata entity) is preceded by the pacing delay.
C14_EveryRequestPaced ==
    impl \in {"lf", "rb"} =>
        \A i \in 1..Len(fetch_log) : fetch_log[i].paced

\* C15 -- the best candidate is fixed by the sequence of scores: it is the
\* first candidate, in the order they were scored, that has the highest score.
C15_FirstOfHighestWins ==
    (pc \in {"scoring", "done"} /\ best.url # 0) =>
        \E i \in 1..Len(scored) :
            /\ scored[i].id = best.id /\ scored[i].score = best.score
            /\ \A j \in 1..Len(scored) :
                 /\ scored[j].score <= best.score
                 /\ scored[j].score = best.score => i <= j

\* a Wikipedia pass ended with two candidates sharing the highest score and
\* the one scored first as best
C15_Witness ==
    /\ pc = "done" /\ impl \in {"lf", "rb"} /\ best.url # 0
    /\ \E i, j \in 1..Len(scored) :
         /\ i < j /\ scored[i].score = best.score /\ scored[j].score = best.score
         /\ scored[i].id = best.id

(***************************************************************************)
(* SpecName: the name-similarity signal, computed from the two strings.    *)
(* A string is the sequence of its characters.  Similarities are in        *)
(* permille (rounded down), points of resolve_best in milli-points.        *)
(***************************************************************************)
UpperCase == <<"A", "B", "C", "D", "E", "F", "G", "H", "I", "J", "K", "L", "M",
               "N", "O", "P", "Q", "R", "S", "T", "U", "V", "W", "X", "Y", "Z">>
LowerCase == <<"a", "b", "c", "d", "e", "f", "g", "h", "i", "j", "k", "l", "m",
               "n", "o", "p", "q", "r", "s", "t", "u", "v", "w", "x", "y", "z">>
Letters == Range(UpperCase) \cup Range(LowerCase)
Whitespace == {" "}

\* str.lower()
lower(s) ==
    [i \in 1..Len(s) |->
        IF s[i] \in Range(UpperCase)
        THEN LowerCase[CHOOSE k \in 1..Len(UpperCase) : UpperCase[k] = s[i]]
        ELSE s[i]]

\* str.strip()
RECURSIVE strip(_)
strip(s) ==
    IF s = <<>> THEN s
    ELSE IF s[1] \in Whitespace THEN strip(Tail(s))
    ELSE IF s[Len(s)] \in Whitespace THEN strip(SubSeq(s, 1, Len(s) - 1))
    ELSE s

\* the maximal runs of characters of s that lie in keep, in order
\* (str.split() with keep = non-whitespace, re.findall(r"[A-Za-z]+") with keep = letters)
RECURSIVE Fields(_, _)
Fields(s, keep) ==
    IF s = <<>> THEN <<>>
    ELSE IF s[1] \notin keep THEN Fields(Tail(s), keep)
    ELSE LET stop == IF \E i \in 1..Len(s) : s[i] \notin keep
                     THEN CHOOSE i \in 1..Len(s) :
                            /\ s[i] \notin keep
                            /\ \A k \in 1..(i - 1) : s[k] \in keep
                     ELSE Len(s) + 1
         IN  <<SubSeq(s, 1, stop - 1)>> \o Fields(SubSeq(s, stop, Len(s)), keep)

\* "x in y" on strings
Contains(y, x) ==
    \E i \in 0..(Len(y) - Len(x)) : SubSeq(y, i + 1, i + Len(x)) = x

\* re.sub(r"\s+", " ", s)
RECURSIVE collapse(_)
collapse(s) ==
    IF s = <<>> THEN s
    ELSE IF s[1] \in Whitespace
         THEN IF Len(s) > 1 /\ s[2] \in Whitespace THEN collapse(Tail(s))
              ELSE <<" ">> \o collapse(Tail(s))
    ELSE <<s[1]>> \o collapse(Tail(s))

\* re.sub(r"\s*\(.*?\)$", "", s): a string that ends in ")" loses everything
\* from its first "(" on, with the whitespace before it
strip_parenthetical(s) ==
    IF s # <<>> /\ s[Len(s)] = ")" /\ "(" \in Range(s)
    THEN LET open == CHOOSE i \in 1..Len(s) :
                        s[i] = "(" /\ \A k \in 1..(i - 1) : s[k] # "("
             RECURSIVE rstrip(_)
             rstrip(t) == IF t # <<>> /\ t[Len(t)] \in Whitespace
                          THEN rstrip(SubSeq(t, 1, Len(t) - 1)) ELSE t
         IN  rstrip(SubSeq(s, 1, open - 1))
    ELSE s

\* the length of the common run of a from i and of b from j
RECURSIVE MatchRun(_, _, _, _, _, _)
MatchRun(a, b, i, j, ahi, bhi) ==
    IF i > ahi \/ j > bhi THEN 0
    ELSE IF a[i] # b[j] THEN 0
    ELSE 1 + MatchRun(a, b, i + 1, j + 1, ahi, bhi)

\* difflib.SequenceMatcher.find_longest_match without junk: of all maximal
\* matching blocks the one that starts earliest in a, then earliest in b
find_longest_match(a, b, alo, ahi, blo, bhi) ==
    LET starts == (alo..ahi) \X (blo..bhi)
        run(st) == MatchRun(a, b, st[1], st[2], ahi, bhi)
        first == CHOOSE st \in starts :
                    \A other \in starts :
                        \/ run(st) > run(other)
                        \/ /\ run(st) = run(other)
                           /\ \/ st[1] < other[1]
                              \/ st[1] = other[1] /\ st[2] <= other[2]
    IN  IF starts = {} THEN [i |-> alo, j |-> blo, size |-> 0]
        ELSE [i |-> first[1], j |-> first[2], size |-> run(first)]

\* the sum of the sizes of get_matching_blocks()
RECURSIVE matches(_, _, _, _, _, _)
matches(a, b, alo, ahi, blo, bhi) ==
    LET m == find_longest_match(a, b, alo, ahi, blo, bhi)
    IN  IF m.size = 0 THEN 0
        ELSE m.size + matches(a, b, alo, m.i - 1, blo, m.j - 1)
                    + matches(a, b, m.i + m.size, ahi, m.j + m.size, bhi)

\* SequenceMatcher(None, a, b).ratio(), in permille
ratio(a, b) ==
    IF Len(a) + Len(b) = 0 THEN 1000
    ELSE (2000 * matches(a, b, 1, Len(a), 1, Len(b))) \div (Len(a) + Len(b))

w_william == <<"w", "i", "l", "l", "i", "a", "m">>
w_bill == <<"b", "i", "l", "l">>
w_billy == <<"b", "i", "l", "l", "y">>
w_will == <<"w", "i", "l", "l">>
w_wills == <<"w", "i", "l", "l", "s">>
w_willy == <<"w", "i", "l", "l", "y">>
w_liam == <<"l", "i", "a", "m">>
w_robert == <<"r", "o", "b", "e", "r", "t">>
w_bob == <<"b", "o", "b">>
w_bobby == <<"b", "o", "b", "b", "y">>
w_rob == <<"r", "o", "b">>
w_robbie == <<"r", "o", "b", "b", "i", "e">>
w_bert == <<"b", "e", "r", "t">>

\* nick_map of _name_similarity (the entries of 'william' and 'robert')
nick_map(first) ==
    CASE first = w_william -> {w_bill, w_billy, w_will, w_wills, w_liam}
      [] first = w_robert -> {w_bob, w_bobby, w_rob, w_robbie, w_bert}
      [] OTHER -> {}

\* self.nickname_map of WikipediaResolver (the entries of 'william' and 'robert')
nickname_map(first) ==
    CASE first = w_william -> {w_bill, w_billy, w_will, w_willy}
      [] first = w_robert -> {w_bob, w_bobby, w_rob, w_robbie, w_bert}
      [] OTHER -> {}

\* WikipediaLinkFinder._name_similarity
clean(n) == strip(SelectSeq(lower(n), LAMBDA c : c \in Letters \cup Whitespace))

split_first_last(n) ==
    LET parts == Fields(clean(n), Letters)
    IN  IF parts = <<>> THEN [first |-> <<>>, last |-> <<>>]
        ELSE IF Len(parts) = 1 THEN [first |-> parts[1], last |-> <<>>]
        ELSE [first |-> parts[1], last |-> parts[Len(parts)]]

variants(first) == {first} \cup nick_map(first)

_name_similarity(a, b) ==
    LET a_clean == clean(a)
        b_clean == clean(b)
        base0 == ratio(a_clean, b_clean)
        an == split_first_last(a)
        bn == split_first_last(b)
        base == IF /\ an.last # <<>> /\ bn.last # <<>> /\ an.last # bn.last
                   /\ ~Contains(b_clean, an.last) /\ ~Contains(a_clean, bn.last)
                THEN Min(base0, 600) ELSE base0
        tries == {ratio(strip(av \o <<" ">> \o an.last), strip(bv \o <<" ">> \o bn.last)) :
                     <<av, bv>> \in variants(an.first) \X variants(bn.first)}
    IN  CHOOSE r \in tries \cup {base} : \A q \in tries \cup {base} : q <= r

\* resolve_best.name_similarity_points: what it reads off the two strings
NameDoc(target, candidate_title) ==
    LET ct == strip(strip_parenthetical(candidate_title))
        t_norm == strip(collapse(target))
        ct_norm == strip(collapse(ct))
        t_tokens == Fields(lower(t_norm), Letters)
        c_tokens == Fields(lower(ct_norm), Letters)
        both == t_tokens # <<>> /\ c_tokens # <<>>
    IN  [sim |-> ratio(lower(t_norm), lower(ct_norm)),
         tokens |-> both,
         last_eq |-> both /\ t_tokens[Len(t_tokens)] = c_tokens[Len(c_tokens)],
         first_ok |-> both /\ (c_tokens[1] = t_tokens[1]
                                 \/ c_tokens[1] \in nickname_map(t_tokens[1]))]

WilliamCole == <<"W", "i", "l", "l", "i", "a", "m", " ", "C", "o", "l", "e">>
BillCole == <<"B", "i", "l", "l", " ", "C", "o", "l", "e">>
WilmaCole == <<"W", "i", "l", "m", "a", " ", "C", "o", "l", "e">>
LiamCole == <<"L", "i", "a", "m", " ", "C", "o", "l", "e">>
WillyCole == <<"W", "i", "l", "l", "y", " ", "C", "o", "l", "e">>
BillColeSheriff == <<"B", "i", "l", "l", " ", "C", "o", "l", "e", " ", "(", "s", "h", "e", "r", "i", "f", "f", ")">>
BobKole == <<"B", "o", "b", " ", "K", "o", "l", "e">>
Cole == <<"C", "o", "l", "e">>

NameSamples ==
    {WilliamCole, BillCole, WilmaCole, LiamCole, WillyCole, BillColeSheriff, BobKole, Cole}

\* the signal of one implementation for one pair
Similarity(i, target, title) ==
    IF i = "lf" THEN _name_similarity(target, title)
    ELSE name_similarity_points(NameDoc(target, title)).score

InitName ==
    /\ n_pc = "ready" /\ n_out = 0
    /\ n_impl \in {"lf", "rb"}
    /\ n_target \in NameSamples
    /\ n_title \in NameSamples
    /\ IdleScore /\ IdleRes /\ IdleODMP /\ IdleBatch /\ IdleRetry /\ IdleScen /\ IdleMore

NameSimilarityLF ==
    /\ n_pc = "ready" /\ n_impl = "lf"
    /\ n_out' = _name_similarity(n_target, n_title)
    /\ n_pc' = "done"
    /\ UNCHANGED <<n_impl, n_target, n_title, scoreVars, resVars, odmpVars, batchVars,
                   retryVars, scenVars, moreVars>>

NameSimilarityRB ==
    /\ n_pc = "ready" /\ n_impl = "rb"
    /\ n_out' = name_similarity_points(NameDoc(n_target, n_title)).score
    /\ n_pc' = "done"
    /\ UNCHANGED <<n_impl, n_target, n_title, scoreVars, resVars, odmpVars, batchVars,
                   retryVars, scenVars, moreVars>>

NextName == NameSimilarityLF \/ NameSimilarityRB

SpecName == InitName /\ [][NextName]_vars

\* C16 -- in both implementations of the name-similarity signal the
\* similarity of ("William Cole", "Bill Cole") is strictly greater than the
\* similarity of ("William Cole", "Wilma Cole").
C16_NicknameAware ==
    (n_pc = "done" /\ n_target = WilliamCole /\ n_title = BillCole) =>
        n_out > Similarity(n_impl, WilliamCole, WilmaCole)

(***************************************************************************)
(* Role gating, under SpecScore.                                           *)
(***************************************************************************)
\* the scored candidate with law-enforcement vocabulary added to its text
WithLawVocabulary == [sc_doc EXCEPT !.hits = @ \cup {"law"}]

ScoreOf(d) ==
    IF sc_impl = "lf" THEN ScoreLF(d, sc_ctx, sc_county).score
    ELSE ScoreRB(d, sc_ctx, sc_county).score

LawGateFails ==
    /\ sc_pc = "scored" /\ sc_impl \in {"lf", "rb"}
    /\ "law" \in sc_ctx /\ "law" \notin sc_doc.hits

\* C17 -- when law enforcement is expected, a candidate without
\* law-enforcement vocabulary scores lower, by exactly the mismatch penalty
\* (50 points), than the same candidate with the vocabulary present.
C17_LowerByPenalty ==
    LawGateFails =>
        sc_out.score = ScoreOf(WithLawVocabulary)
                         - (IF sc_impl = "lf" THEN 50 ELSE Pts(50))

\* C17 as the code has it: the candidate loses the penalty and the bonus of
\* the matched role, 65 points; resolve_best then clamps to 0..100, which
\* can only narrow the gap.
C17_LowerByPenaltyAndBonus ==
    LawGateFails =>
        IF sc_impl = "lf" THEN sc_out.score = ScoreOf(WithLawVocabulary) - 65
        ELSE /\ role_context_points(sc_doc, sc_ctx).score
                  = role_context_points(WithLawVocabulary, sc_ctx).score - Pts(65)
             /\ sc_out.score <= ScoreOf(WithLawVocabulary)
             /\ ScoreOf(WithLawVocabulary) - sc_out.score <= Pts(65)
             /\ (sc_out.score > 0 /\ ScoreOf(WithLawVocabulary) < Pts(100)) =>
                    sc_out.score = ScoreOf(WithLawVocabulary) - Pts(65)

C17_Witness ==
    /\ LawGateFails /\ sc_impl = "rb"
    /\ sc_out.score > 0 /\ ScoreOf(WithLawVocabulary) < Pts(100)

(***************************************************************************)
(* SpecScenario: one candidate of the link finder, from the strings of the *)
(* query and of the page to the decision.  The page has no description,    *)
(* and its Wikidata entity no occupation or place labels; no county.       *)
(***************************************************************************)
Digits == <<"0", "1", "2", "3", "4", "5", "6", "7", "8", "9">>
WordChars == Letters \cup Range(Digits) \cup {"_"}
RomanLetters == {"i", "v", "x", "l", "c", "d", "m"}

\* the keyword lists of _extract_context_from_designation
expect_keywords(role) ==
    CASE role = "military" ->
        { <<"u", ".", "s", ".", " ", "a", "r", "m", "y">>,
          <<"u", "s", " ", "a", "r", "m", "y">>,
          <<"m", "a", "r", "i", "n", "e">>,
          <<"a", "i", "r", " ", "f", "o", "r", "c", "e">>,
          <<"n", "a", "v", "y">>,
          <<"s", "g", "t">>,
          <<"s", "e", "r", "g", "e", "a", "n", "t">>,
          <<"c", "p", "l">>,
          <<"c", "o", "r", "p", "o", "r", "a", "l">>,
          <<"p", "f", "c">>,
          <<"t", "r", "o", "o", "p", "e", "r">>,
          <<"l", "a", "n", "c", "e", " ", "c", "o", "r", "p", "o", "r", "a", "l">>,
          <<"s", "s", "g", "t">>,
          <<"s", "t", "a", "f", "f", " ", "s", "e", "r", "g", "e", "a", "n", "t">>,
          <<"c", "o", "l", "o", "n", "e", "l">>,
          <<"m", "a", "j", "o", "r">>,
          <<"p", "r", "i", "v", "a", "t", "e">> }
      [] role = "law" ->
        { <<"d", "e", "p", "u", "t", "y">>,
          <<"s", "h", "e", "r", "i", "f", "f">>,
          <<"o", "f", "f", "i", "c", "e", "r">>,
          <<"p", "a", "t", "r", "o", "l", "m", "a", "n">>,
          <<"p", "o", "l", "i", "c", "e">>,
          <<"t", "r", "o", "o", "p", "e", "r">> }
      [] role = "politics" ->
        { <<"s", "e", "n", "a", "t", "o", "r">>,
          <<"r", "e", "p", "r", "e", "s", "e", "n", "t", "a", "t", "i", "v", "e">>,
          <<"c", "o", "n", "g", "r", "e", "s", "s">>,
          <<"g", "o", "v", "e", "r", "n", "o", "r">>,
          <<"m", "a", "y", "o", "r">>,
          <<"c", "o", "m", "m", "i", "s", "s", "i", "o", "n", "e", "r">>,
          <<"s", "p", "e", "a", "k", "e", "r">> }
      [] role = "religion" ->
        { <<"r", "e", "v">>,
          <<"r", "e", "v", "e", "r", "e", "n", "d">>,
          <<"p", "a", "s", "t", "o", "r">>,
          <<"b", "i", "s", "h", "o", "p">>,
          <<"r", "a", "b", "b", "i">>,
          <<"p", "r", "i", "e", "s", "t">> }
      [] role = "music" ->
        { <<"m", "u", "s", "i", "c", "i", "a", "n">>,
          <<"s", "i", "n", "g", "e", "r">>,
          <<"s", "o", "n", "g", "w", "r", "i", "t", "e", "r">>,
          <<"b", "a", "n", "d">>,
          <<"c", "o", "m", "p", "o", "s", "e", "r">> }
      [] role = "sport" ->
        { <<"c", "o", "a", "c", "h">>,
          <<"o", "l", "y", "m", "p", "i", "a", "n">>,
          <<"a", "t", "h", "l", "e", "t", "e">>,
          <<"f", "o", "o", "t", "b", "a", "l", "l">>,
          <<"b", "a", "s", "k", "e", "t", "b", "a", "l", "l">>,
          <<"b", "a", "s", "e", "b", "a", "l", "l">>,
          <<"s", "o", "c", "c", "e", "r">>,
          <<"t", "r", "a", "c", "k">>,
          <<"r", "u", "n", "n", "e", "r">> }

\* _extract_context_from_designation: the roles the designation expects
_extract_context_from_designation(designation) ==
    {r \in Roles : \E k \in expect_keywords(r) : Contains(lower(designation), k)}

\* the keyword lists of the role tests of _score_candidate
hit_keywords(role) ==
    CASE role = "military" ->
        { <<"s", "o", "l", "d", "i", "e", "r">>,
          <<"m", "a", "r", "i", "n", "e">>,
          <<"a", "i", "r", " ", "f", "o", "r", "c", "e">>,
          <<"n", "a", "v", "y">>,
          <<"a", "r", "m", "y">>,
          <<"m", "i", "l", "i", "t", "a", "r", "y">> }
      [] role = "law" ->
        { <<"p", "o", "l", "i", "c", "e">>,
          <<"s", "h", "e", "r", "i", "f", "f">>,
          <<"d", "e", "p", "u", "t", "y">>,
          <<"s", "t", "a", "t", "e", " ", "t", "r", "o", "o", "p", "e", "r">>,
          <<"l", "a", "w", " ", "e", "n", "f", "o", "r", "c", "e", "m", "e", "n", "t">> }
      [] role = "politics" ->
        { <<"p", "o", "l", "i", "t", "i", "c", "i", "a", "n">>,
          <<"s", "e", "n", "a", "t", "o", "r">>,
          <<"r", "e", "p", "r", "e", "s", "e", "n", "t", "a", "t", "i", "v", "e">>,
          <<"g", "o", "v", "e", "r", "n", "o", "r">>,
          <<"m", "a", "y", "o", "r">>,
          <<"l", "e", "g", "i", "s", "l", "a", "t", "o", "r">> }
      [] role = "religion" ->
        { <<"p", "a", "s", "t", "o", "r">>,
          <<"p", "r", "i", "e", "s", "t">>,
          <<"b", "i", "s", "h", "o", "p">>,
          <<"m", "i", "n", "i", "s", "t", "e", "r">>,
          <<"r", "a", "b", "b", "i">> }
      [] role = "music" ->
        { <<"m", "u", "s", "i", "c", "i", "a", "n">>,
          <<"s", "i", "n", "g", "e", "r">>,
          <<"s", "o", "n", "g", "w", "r", "i", "t", "e", "r">>,
          <<"c", "o", "m", "p", "o", "s", "e", "r">> }
      [] role = "sport" ->
        { <<"f", "o", "o", "t", "b", "a", "l", "l">>,
          <<"b", "a", "s", "k", "e", "t", "b", "a", "l", "l">>,
          <<"b", "a", "s", "e", "b", "a", "l", "l">>,
          <<"s", "o", "c", "c", "e", "r">>,
          <<"a", "t", "h", "l", "e", "t", "e">>,
          <<"c", "o", "a", "c", "h">>,
          <<"o", "l", "y", "m", "p">> }

\* the roles whose vocabulary occurs in extract + ' ' + description + ' ' + occ_text
RoleHits(text) == {r \in Roles : \E k \in hit_keywords(r) : Contains(text, k)}

\* non_person_indicators of _is_likely_person_page
title_non_person_indicators ==
    { <<"h", "i", "g", "h", "w", "a", "y">>,
      <<"r", "o", "a", "d">>,
      <<"b", "r", "i", "d", "g", "e">>,
      <<"b", "u", "i", "l", "d", "i", "n", "g">>,
      <<"s", "c", "h", "o", "o", "l">>,
      <<"h", "o", "s", "p", "i", "t", "a", "l">>,
      <<"c", "o", "m", "p", "a", "n", "y">>,
      <<"o", "r", "g", "a", "n", "i", "z", "a", "t", "i", "o", "n">>,
      <<"b", "a", "n", "d">>,
      <<"a", "l", "b", "u", "m">>,
      <<"s", "o", "n", "g">>,
      <<"m", "o", "v", "i", "e">>,
      <<"b", "o", "o", "k">>,
      <<"t", "v", " ", "s", "e", "r", "i", "e", "s">>,
      <<"c", "o", "u", "n", "t", "y">>,
      <<"c", "i", "t", "y">>,
      <<"s", "t", "a", "t", "e">> }

\* non_person_indicators of _score_candidate
non_person_indicators ==
    { <<"h", "i", "g", "h", "w", "a", "y">>,
      <<"r", "o", "a", "d">>,
      <<"b", "r", "i", "d", "g", "e">>,
      <<"b", "u", "i", "l", "d", "i", "n", "g">>,
      <<"s", "c", "h", "o", "o", "l">>,
      <<"h", "o", "s", "p", "i", "t", "a", "l">>,
      <<"c", "o", "m", "p", "a", "n", "y">>,
      <<"o", "r", "g", "a", "n", "i", "z", "a", "t", "i", "o", "n">>,
      <<"b", "a", "n", "d">>,
      <<"a", "l", "b", "u", "m">>,
      <<"s", "o", "n", "g">>,
      <<"m", "o", "v", "i", "e">>,
      <<"b", "o", "o", "k">>,
      <<"t", "v", " ", "s", "e", "r", "i", "e", "s">>,
      <<"p", "a", "r", "k">>,
      <<"c", "i", "t", "y">>,
      <<"c", "o", "u", "n", "t", "y">>,
      <<"r", "i", "v", "e", "r">> }

nobility_terms ==
    { <<" ", "l", "o", "r", "d", " ">>,
      <<" ", "d", "u", "k", "e", " ">>,
      <<" ", "d", "u", "c", "h", "e", "s", "s", " ">>,
      <<" ", "c", "o", "u", "n", "t", " ">>,
      <<" ", "e", "a", "r", "l", " ">>,
      <<" ", "p", "r", "i", "n", "c", "e", " ">>,
      <<" ", "p", "r", "i", "n", "c", "e", "s", "s", " ">>,
      <<" ", "m", "a", "r", "q", "u", "e", "s", "s", " ">>,
      <<" ", "b", "a", "r", "o", "n", " ">>,
      <<" ", "b", "a", "r", "o", "n", "e", "s", "s", " ">>,
      <<" ", "k", "i", "n", "g", " ">>,
      <<" ", "q", "u", "e", "e", "n", " ">> }

str_disambiguation == <<"(", "d", "i", "s", "a", "m", "b", "i", "g", "u", "a", "t", "i", "o", "n", ")">>
str_of_mecklenburg == <<" ", "o", "f", " ", "m", "e", "c", "k", "l", "e", "n", "b", "u", "r", "g">>
str_lord_of == <<",", " ", "l", "o", "r", "d", " ", "o", "f">>
str_of == <<" ", "o", "f", " ">>
str_mecklenburg == <<"m", "e", "c", "k", "l", "e", "n", "b", "u", "r", "g">>
str_florida == <<"f", "l", "o", "r", "i", "d", "a">>
str_united_states == <<"u", "n", "i", "t", "e", "d", " ", "s", "t", "a", "t", "e", "s">>
str_american == <<"a", "m", "e", "r", "i", "c", "a", "n">>

_is_likely_person_page(title, original_name) ==
    LET title_lower == lower(title)
        original_words == Range(Fields(lower(original_name), Range(lower(original_name)) \ Whitespace))
        title_words == Range(Fields(title_lower, Range(title_lower) \ Whitespace))
    IN  IF Contains(title_lower, str_disambiguation) THEN FALSE
        ELSE IF \E k \in title_non_person_indicators : Contains(title_lower, k) THEN FALSE
        ELSE 2 * Cardinality(original_words \cap title_words) >= Cardinality(original_words)

\* re.search(r"^[a-z]+\s+[ivxlcdm]+\b", title_l)
RomanAfterFirst(title_l) ==
    \E i \in 1..Len(title_l) : \E j \in (i + 1)..Len(title_l) : \E k \in (j + 1)..Len(title_l) :
        /\ \A x \in 1..i : title_l[x] \in Range(LowerCase)
        /\ \A x \in (i + 1)..j : title_l[x] \in Whitespace
        /\ \A x \in (j + 1)..k : title_l[x] \in RomanLetters
        /\ k = Len(title_l) \/ title_l[k + 1] \notin WordChars

\* re.findall(r"(1[5-9]\d{2}|20\d{2}|19\d{2})", extract), for digit runs of up to four
Years(extract) ==
    LET val(c) == (CHOOSE k \in 1..Len(Digits) : Digits[k] = c) - 1
        at(i) == 1000 * val(extract[i]) + 100 * val(extract[i + 1])
                   + 10 * val(extract[i + 2]) + val(extract[i + 3])
    IN  { at(i) : i \in { x \in 1..(Len(extract) - 3) :
                            /\ \A y \in x..(x + 3) : extract[y] \in Range(Digits)
                            /\ at(x) >= 1500 /\ at(x) <= 2099 } }

\* the outcome of every test of _score_candidate on one title and one page
DocOf(title, original_name, designation, page) ==
    LET title_l == lower(title)
        extract == lower(page.extract)
        description == lower(page.description)
        occ_text == <<>>
        places_text == <<>>
        role_text == extract \o <<" ">> \o description \o <<" ">> \o occ_text
        combined_text == extract \o <<" ">> \o description \o <<" ">> \o places_text
        ctx0 == _extract_context_from_designation(designation)
        parts == Fields(original_name, Letters)
        name_parts == Len(parts) >= 2
        first == IF name_parts THEN lower(parts[1]) ELSE <<>>
        last == IF name_parts THEN lower(parts[Len(parts)]) ELSE <<>>
    IN  [disamb_title |-> Contains(title_l, str_disambiguation),
         likely_person |-> _is_likely_person_page(title, original_name),
         nobility |-> \E term \in nobility_terms : Contains(<<" ">> \o title_l \o <<" ">>, term),
         territorial |-> \/ Contains(title_l, str_of_mecklenburg)
                         \/ Contains(title_l, str_lord_of)
                         \/ Contains(title_l, str_of) /\ Contains(title_l, str_mecklenburg),
         roman |-> RomanAfterFirst(title_l),
         sim |-> _name_similarity(original_name, title),
         type_disamb |-> page.type = "disambiguation",
         qid |-> page.qid,
         is_human |-> page.qid # 0 /\ page.is_human,
         hits |-> RoleHits(role_text),
         pre1900 |-> /\ ctx0 \cap {"law", "military"} # {}
                     /\ Years(extract) # {} /\ \A y \in Years(extract) : y < 1900,
         name_parts |-> name_parts,
         last_missing |-> name_parts /\ ~Contains(title_l, last),
         first_missing |-> name_parts /\ ~Contains(title_l, first),
         \* parts[1] is a run of letters: it never has the form "A."
         mid_initial |-> Len(parts) >= 3 /\ Len(parts[2]) = 2 /\ parts[2][2] = ".",
         roman_vs_mid |-> FALSE,
         mid_mismatch |-> FALSE,
         florida |-> Contains(combined_text, str_florida),
         county_hit |-> FALSE,
         us |-> Contains(combined_text, str_united_states) \/ Contains(combined_text, str_american),
         nonperson |-> \E k \in non_person_indicators :
                          Contains(title_l \o <<" ">> \o combined_text, k)]

MichaelABock == <<"M", "i", "c", "h", "a", "e", "l", " ", "A", ".", " ", "B", "o", "c", "k">>
MichaelBock == <<"M", "i", "c", "h", "a", "e", "l", " ", "B", "o", "c", "k">>
StaffSergeantHighway ==
    <<"S", "t", "a", "f", "f", " ", "S", "e", "r", "g", "e", "a", "n", "t", " ">> \o MichaelABock \o <<" ", "M", "e", "m", "o", "r", "i", "a", "l", " ", "H", "i", "g", "h", "w", "a", "y">>
PlainHighway == MichaelABock \o <<" ", "M", "e", "m", "o", "r", "i", "a", "l", " ", "H", "i", "g", "h", "w", "a", "y">>
str_staff_sergeant_in ==
    <<" ", "w", "a", "s", " ", "a", " ", "s", "t", "a", "f", "f", " ", "s", "e", "r", "g", "e", "a", "n", "t", " ", "i", "n", " ", "t", "h", "e", " ">>
str_of_the_United_States ==
    <<" ", "o", "f", " ", "t", "h", "e", " ", "U", "n", "i", "t", "e", "d", " ", "S", "t", "a", "t", "e", "s">>
str_from_Florida == <<" ", "f", "r", "o", "m", " ", "F", "l", "o", "r", "i", "d", "a">>
str_US_Army == <<"U", ".", "S", ".", " ", "A", "r", "m", "y">>

\* page extracts that contain "U.S. Army"
ArmyExtracts ==
    { MichaelABock \o str_staff_sergeant_in \o str_US_Army \o us \o fl :
        us \in {<<>>, str_of_the_United_States}, fl \in {<<>>, str_from_Florida} }

\* page summaries: without a Wikidata item, or with one that is or is not a human
ScenarioPages ==
    { [extract |-> e, description |-> <<>>, type |-> "standard", qid |-> w[1], is_human |-> w[2]] :
        e \in ArmyExtracts, w \in {<<0, FALSE>>, <<1, FALSE>>, <<1, TRUE>>} }

InitScenario ==
    /\ s_pc = "candidate" /\ s_score = 0 /\ s_url = None
    /\ s_name = MichaelABock
    /\ s_designation \in {StaffSergeantHighway, PlainHighway}
    /\ s_title \in {MichaelABock, MichaelBock}
    /\ s_page \in ScenarioPages
    /\ IdleScore /\ IdleRes /\ IdleODMP /\ IdleBatch /\ IdleRetry /\ IdleName /\ IdleMore

\* score, notes = self._score_candidate(title, name, designation, county)
ScenarioScore ==
    /\ s_pc = "candidate"
    /\ s_score' = ScoreLF(DocOf(s_title, s_name, s_designation, s_page),
                          _extract_context_from_designation(s_designation), FALSE).score
    /\ s_pc' = "scored"
    /\ UNCHANGED <<s_name, s_designation, s_title, s_page, s_url, scoreVars, resVars,
                   odmpVars, batchVars, retryVars, nameVars, moreVars>>

\* accepted_url = best_url if best_score >= 75 else None
ScenarioDecide ==
    /\ s_pc = "scored"
    /\ s_url' = IF s_score >= 75 THEN "best_url" ELSE None
    /\ s_pc' = "decided"
    /\ UNCHANGED <<s_name, s_designation, s_title, s_page, s_score, scoreVars, resVars,
                   odmpVars, batchVars, retryVars, nameVars, moreVars>>

NextScenario == ScenarioScore \/ ScenarioDecide

SpecScenario == InitScenario /\ [][NextScenario]_vars

\* C18 -- for "Michael A. Bock" and "Staff Sergeant Michael A. Bock Memorial
\* Highway" the military role is expected, and a candidate whose document
\* contains "U.S. Army" and whose title matches the name closely is accepted
\* with a score at or above the acceptance threshold.
C18_ScenarioA ==
    (/\ s_pc = "decided" /\ s_name = MichaelABock /\ s_designation = StaffSergeantHighway
     /\ Contains(s_page.extract, str_US_Army)
     /\ _name_similarity(s_name, s_title) >= 900) =>
        /\ "military" \in _extract_context_from_designation(s_designation)
        /\ s_url # None
        /\ s_score >= 75

(***************************************************************************)
(* Scenario B, under Spec: a disambiguation page among the candidates of  *)
(* a query without context.                                                *)
(***************************************************************************)
DisambiguationTags ==
    IF impl = "lf" THEN {"disambiguation-title", "disambiguation-summary"} ELSE {"disamb"}

\* C19 -- for a name without context, a disambiguation-page candidate
\* receives the disambiguation penalty, and when no other candidate reaches
\* the threshold the resolution is Rejected: no URL is returned as found.
C19_ScenarioB ==
    (pc = "done" /\ impl \in {"lf", "rb"} /\ ctx = {} /\ ~result.error) =>
        \A i \in 1..Len(scored) :
            Disambiguation(scored[i].id.page) =>
                /\ scored[i].id = best.id =>
                       \E k \in 1..Len(best.notes) : best.notes[k].tag \in DisambiguationTags
                /\ (\A j \in 1..Len(scored) :
                        j # i => scored[j].score < threshold_used) =>
                       /\ ~Accepted
                       /\ result.url = 0

\* C20 -- every rejected query that had at least one candidate is surfaced
\* for manual review: its top-ranked candidate (title, score, notes) is
\* written to the review output, whatever that candidate's score is.
C20_RejectedSurfaced ==
    (pc = "reported" /\ ~result.error /\ ~Accepted /\ Len(scored) >= 1) =>
        /\ Len(review) = 1
        /\ review[1].title = best.id
        /\ review[1].confidence = result.confidence
        /\ review[1].notes = best.notes

(***************************************************************************)
(* The summarizer and the resolution, under SpecBatch                      *)
(***************************************************************************)
\* the one decision scrape_person takes by score and threshold is the fuzzy
\* match of search_officer; get_person_info takes search_results[0] as it comes
ResolutionAccepted(rec) == rec.odmp_url

\* C21 -- the summarizer is invoked for a query only after that query's
\* resolution was Accepted: no biography extraction is started for a query
\* whose resolution was rejected or never scored.
C21_SummarizerAfterAccepted ==
    \A i \in 1..Len(results) : results[i].ai_summary => ResolutionAccepted(results[i])

(***************************************************************************)
(* SpecCsv: WikipediaLinkFinder.process_csv, the loop over the rows of the *)
(* input file and over the names extract_person_names finds in each row.   *)
(* A row is its designation (present or empty) and the names extracted     *)
(* from it; the outcome of search_wikipedia_with_validation is an input.   *)
(***************************************************************************)
MaxCsvRows == 2
MaxRowNames == 2

CsvNames == {"Frank Gross", "Ann Lee"}

NameLists == UNION {[1..k -> CsvNames] : k \in 0..MaxRowNames}

CsvRows ==
    {[designation |-> FALSE, names |-> <<>>]}
        \cup {[designation |-> TRUE, names |-> l] : l \in NameLists}

InitCsv ==
    /\ c_pc = "rows"
    /\ c_rows \in UNION {[1..k -> CsvRows] : k \in 0..MaxCsvRows}
    /\ c_i = 1 /\ c_j = 1
    /\ processed_names = {}
    /\ searched = <<>>
    /\ c_results = <<>>
    /\ IdleNotCsv

\* 'if name in processed_names: continue', and what it is without the set
AlreadyProcessed_never(name, seen) == FALSE

AlreadyProcessed(name, seen) == name \in seen

\* the names of the row at hand: none when the designation is empty
NamesOfRow == IF c_rows[c_i].designation THEN c_rows[c_i].names ELSE <<>>

CsvSkipProcessed ==
    /\ c_pc = "rows" /\ c_i <= Len(c_rows) /\ c_j <= Len(NamesOfRow)
    /\ AlreadyProcessed(NamesOfRow[c_j], processed_names)
    /\ c_j' = c_j + 1
    /\ UNCHANGED <<c_pc, c_rows, c_i, processed_names, searched, c_results, notCsv>>

CsvSearch ==
    /\ c_pc = "rows" /\ c_i <= Len(c_rows) /\ c_j <= Len(NamesOfRow)
    /\ ~AlreadyProcessed(NamesOfRow[c_j], processed_names)
    /\ processed_names' = processed_names \cup {NamesOfRow[c_j]}
    /\ searched' = Append(searched, NamesOfRow[c_j])
    /\ \E found \in BOOLEAN :
          c_results' = Append(c_results, [name |-> NamesOfRow[c_j], row |-> c_i,
                                          status |-> IF found THEN "Found" ELSE "Not Found"])
    /\ c_j' = c_j + 1
    /\ UNCHANGED <<c_pc, c_rows, c_i, notCsv>>

CsvNextRow ==
    /\ c_pc = "rows" /\ c_i <= Len(c_rows) /\ c_j > Len(NamesOfRow)
    /\ c_i' = c_i + 1 /\ c_j' = 1
    /\ UNCHANGED <<c_pc, c_rows, processed_names, searched, c_results, notCsv>>

CsvWrite ==
    /\ c_pc = "rows" /\ c_i > Len(c_rows)
    /\ c_pc' = "written"
    /\ UNCHANGED <<c_rows, c_i, c_j, processed_names, searched, c_results, notCsv>>

NextCsv == CsvSkipProcessed \/ CsvSearch \/ CsvNextRow \/ CsvWrite

SpecCsv == InitCsv /\ [][NextCsv]_vars

\* C22 -- a rejection is terminal within one run: process_csv resolves each
\* distinct extracted name at most once, and a name already processed, accepted
\* or rejected, is never searched again when it reappears in a later row.
C22_ResolvedOnce ==
    /\ \A a, b \in 1..Len(searched) : searched[a] = searched[b] => a = b
    /\ \A a \in 1..Len(c_results) :
          c_results[a].name = searched[a]
    /\ Range(searched) = processed_names

\* a name rejected in the first row reappears in the second and the file is written
C22_Witness ==
    /\ c_pc = "written" /\ Len(c_rows) = 2
    /\ \E n \in Range(c_rows[1].names) \cap Range(c_rows[2].names) :
          \E a \in 1..Len(c_results) :
              c_results[a].name = n /\ c_results[a].status = "Not Found" /\ c_results[a].row = 1

(***************************************************************************)
(* SpecPerson: one Person object (person_summarizer.py) and a sequence of  *)
(* getter and clear_cache calls on it.  What extract_person_data returns   *)
(* is an input: the page and the model's answer may differ from one        *)
(* extraction to the next, and an extraction may raise.                    *)
(***************************************************************************)
MaxPersonCalls == 4

Getters == {"getSummary", "getEducation", "getDOB"}

PersonData ==
    {[summary |-> sm,
      structured_data |-> [present |-> TRUE, education |-> ed, date_of_birth |-> None]] :
        sm \in {"biography one", "biography two"}, ed \in {"West Point", None}}

\* what a getter returns from the fields of the object
Returned(getter, summary, structured_data) ==
    CASE getter = "getSummary" -> summary
      [] getter = "getEducation" ->
            IF structured_data.present THEN structured_data.education ELSE None
      [] getter = "getDOB" ->
            IF structured_data.present THEN structured_data.date_of_birth ELSE None

\* 'if not self._data_extracted', and a getter that extracts whatever the flag says
MustExtract_always(data_extracted) == TRUE

MustExtract(data_extracted) == ~data_extracted

InitPerson ==
    /\ p_summary = None
    /\ p_structured_data = NoData
    /\ p_data_extracted = FALSE
    /\ p_extractions = 0
    /\ p_log = <<>>
    /\ IdleNotPerson

\* a getter on an object without data: _extract_all_data runs and stores the data
GetterExtracts ==
    /\ Len(p_log) < MaxPersonCalls
    /\ MustExtract(p_data_extracted)
    /\ \E getter \in Getters, data \in PersonData :
          /\ p_summary' = data.summary
          /\ p_structured_data' = data.structured_data
          /\ p_data_extracted' = TRUE
          /\ p_extractions' = p_extractions + 1
          /\ p_log' = Append(p_log, [call |-> getter, extraction |-> TRUE,
                                     ret |-> Returned(getter, data.summary, data.structured_data)])
    /\ UNCHANGED notPerson

\* a getter on an object without data whose extraction raises: nothing is stored
GetterExtractionRaises ==
    /\ Len(p_log) < MaxPersonCalls
    /\ MustExtract(p_data_extracted)
    /\ \E getter \in Getters :
          p_log' = Append(p_log, [call |-> getter, extraction |-> TRUE, ret |-> "raise"])
    /\ p_extractions' = p_extractions + 1
    /\ UNCHANGED <<p_summary, p_structured_data, p_data_extracted, notPerson>>

\* a getter on an object that holds data
GetterCached ==
    /\ Len(p_log) < MaxPersonCalls
    /\ ~MustExtract(p_data_extracted)
    /\ \E getter \in Getters :
          p_log' = Append(p_log, [call |-> getter, extraction |-> FALSE,
                                  ret |-> Returned(getter, p_summary, p_structured_data)])
    /\ UNCHANGED <<p_summary, p_structured_data, p_data_extracted, p_extractions, notPerson>>

clear_cache ==
    /\ Len(p_log) < MaxPersonCalls
    /\ p_summary' = None
    /\ p_structured_data' = NoData
    /\ p_data_extracted' = FALSE
    /\ p_log' = Append(p_log, [call |-> "clear_cache", extraction |-> FALSE, ret |-> None])
    /\ UNCHANGED <<p_extractions, notPerson>>

NextPerson == GetterExtracts \/ GetterExtractionRaises \/ GetterCached \/ clear_cache

SpecPerson == InitPerson /\ [][NextPerson]_vars

\* the last call of the log, once the step is taken
LastCall == p_log'[Len(p_log')]

\* the last successful extraction before position k of the log was not followed
\* by a clear_cache
HoldsDataAt(k) ==
    \E a \in 1..(k - 1) :
        /\ p_log[a].extraction /\ p_log[a].ret # "raise"
        /\ \A b \in (a + 1)..(k - 1) : p_log[b].call # "clear_cache"

\* C23 -- a Person extracts its data with a single extraction and caches it:
\* after one successful extraction every getter call triggers no further
\* extraction and returns the cached values; only after clear_cache() does the
\* next getter call trigger a new extraction, exactly one.
C23_SingleExtraction ==
    [][LastCall.call \in Getters =>
         IF HoldsDataAt(Len(p_log) + 1)
         THEN /\ p_extractions' = p_extractions
              /\ ~LastCall.extraction
              /\ LastCall.ret = Returned(LastCall.call, p_summary, p_structured_data)
              /\ p_summary' = p_summary /\ p_structured_data' = p_structured_data
         ELSE /\ p_extractions' = p_extractions + 1
              /\ LastCall.extraction]_vars

\* data extracted, read from the cache, cleared and extracted once more
C23_Witness ==
    /\ Len(p_log) = 4 /\ p_extractions = 2
    /\ p_log[1].extraction /\ p_log[1].ret # "raise"
    /\ p_log[2].call \in Getters /\ ~p_log[2].extraction
    /\ p_log[3].call = "clear_cache"
    /\ p_log[4].extraction /\ p_log[4].ret # "raise"

(***************************************************************************)
(* SpecDate: the date normalizers.  PersonSummarizer._normalize_date       *)
(* ("person"), _normalize_date_local of enhance_csv_with_retry ("local")   *)
(* and normalize_date of tests/test_date_normalization.py ("reference")    *)
(* are applied to one date string each.  A returned None is NoDate.        *)
(***************************************************************************)
NoDate == <<>>

IsDigits(t, n) == Len(t) = n /\ \A i \in 1..Len(t) : t[i] \in Range(Digits)

\* ^\d{4}-\d{2}-\d{2}$, ^\d{4}-\d{2}$ and ^\d{4}$
IsoFull(t) ==
    /\ Len(t) = 10 /\ t[5] = "-" /\ t[8] = "-"
    /\ IsDigits(SubSeq(t, 1, 4), 4) /\ IsDigits(SubSeq(t, 6, 7), 2) /\ IsDigits(SubSeq(t, 9, 10), 2)

IsoMonth(t) ==
    Len(t) = 7 /\ t[5] = "-" /\ IsDigits(SubSeq(t, 1, 4), 4) /\ IsDigits(SubSeq(t, 6, 7), 2)

IsoYear(t) == IsDigits(t, 4)

null_words ==
    {<<"n", "u", "l", "l">>,
     <<"n", "o", "n", "e">>,
     <<"n", "o", "t", " ", "f", "o", "u", "n", "d">>,
     <<"u", "n", "k", "n", "o", "w", "n">>,
     <<"n", "/", "a">>,
     <<"n", "a">>}

month_map ==
    <<"j", "a", "n">> :> <<"0", "1">> @@
    <<"j", "a", "n", "u", "a", "r", "y">> :> <<"0", "1">> @@
    <<"f", "e", "b">> :> <<"0", "2">> @@
    <<"f", "e", "b", "r", "u", "a", "r", "y">> :> <<"0", "2">> @@
    <<"m", "a", "r">> :> <<"0", "3">> @@
    <<"m", "a", "r", "c", "h">> :> <<"0", "3">> @@
    <<"a", "p", "r">> :> <<"0", "4">> @@
    <<"a", "p", "r", "i", "l">> :> <<"0", "4">> @@
    <<"m", "a", "y">> :> <<"0", "5">> @@
    <<"j", "u", "n">> :> <<"0", "6">> @@
    <<"j", "u", "n", "e">> :> <<"0", "6">> @@
    <<"j", "u", "l">> :> <<"0", "7">> @@
    <<"j", "u", "l", "y">> :> <<"0", "7">> @@
    <<"a", "u", "g">> :> <<"0", "8">> @@
    <<"a", "u", "g", "u", "s", "t">> :> <<"0", "8">> @@
    <<"s", "e", "p">> :> <<"0", "9">> @@
    <<"s", "e", "p", "t">> :> <<"0", "9">> @@
    <<"s", "e", "p", "t", "e", "m", "b", "e", "r">> :> <<"0", "9">> @@
    <<"o", "c", "t">> :> <<"1", "0">> @@
    <<"o", "c", "t", "o", "b", "e", "r">> :> <<"1", "0">> @@
    <<"n", "o", "v">> :> <<"1", "1">> @@
    <<"n", "o", "v", "e", "m", "b", "e", "r">> :> <<"1", "1">> @@
    <<"d", "e", "c">> :> <<"1", "2">> @@
    <<"d", "e", "c", "e", "m", "b", "e", "r">> :> <<"1", "2">>

\* the ISO forms of both implementations, and a year-only form left as it is
iso_forms_year_kept(t) ==
    IF IsoFull(t) THEN SubSeq(t, 1, 4) \o <<"-">> \o SubSeq(t, 6, 7) \o <<"-">> \o SubSeq(t, 9, 10)
    ELSE IF IsoMonth(t) THEN SubSeq(t, 1, 4) \o <<"-">> \o SubSeq(t, 6, 7) \o <<"-", "0", "1">>
    ELSE IF IsoYear(t) THEN t
    ELSE NoDate

iso_forms(t) ==
    IF IsoFull(t) THEN SubSeq(t, 1, 4) \o <<"-">> \o SubSeq(t, 6, 7) \o <<"-">> \o SubSeq(t, 9, 10)
    ELSE IF IsoMonth(t) THEN SubSeq(t, 1, 4) \o <<"-">> \o SubSeq(t, 6, 7) \o <<"-", "0", "1">>
    ELSE IF IsoYear(t) THEN t \o <<"-", "0", "1", "-", "0", "1">>
    ELSE NoDate

\* re.sub(r'[,\.]', '', s).lower()
s_clean(t) == lower(SelectSeq(t, LAMBDA ch : ch \notin {",", "."}))

\* the whitespace-separated parts of a string that a pattern anchored at both
\* ends can match: none if the string starts or ends with whitespace
Parts(t) ==
    IF t = <<>> \/ t[1] \in Whitespace \/ t[Len(t)] \in Whitespace THEN <<>>
    ELSE Fields(t, Range(t) \ Whitespace)

IsDay(t) == IsDigits(t, 1) \/ IsDigits(t, 2)
IsWord(t) == t # <<>> /\ \A i \in 1..Len(t) : t[i] \in Range(LowerCase)
IsMonth(t) == IsWord(t) /\ t \in DOMAIN month_map

\* f"{day:02d}" of int(day)
Day02(t) == IF Len(t) = 1 THEN <<"0">> \o t ELSE t

\* ^(\d{1,2})\s+([a-z]+)\s+(\d{4})$
IsDayMonthYear(t) ==
    Len(Parts(t)) = 3 /\ IsDay(Parts(t)[1]) /\ IsMonth(Parts(t)[2]) /\ IsDigits(Parts(t)[3], 4)

\* ^([a-z]+)\s+(\d{1,2})\s+(\d{4})$
IsMonthDayYear(t) ==
    Len(Parts(t)) = 3 /\ IsMonth(Parts(t)[1]) /\ IsDay(Parts(t)[2]) /\ IsDigits(Parts(t)[3], 4)

\* ^([a-z]+)\s+(\d{4})$
IsMonthYear(t) == Len(Parts(t)) = 2 /\ IsMonth(Parts(t)[1]) /\ IsDigits(Parts(t)[2], 4)

\* ^(\d{1,2})\s+([a-z]+)\s*(\d{2})?$ with the third group present: the month and
\* the two-digit year, which may follow the month without a space
MonthAndShortYear(t) ==
    IF Len(Parts(t)) = 3 /\ IsDay(Parts(t)[1]) THEN <<Parts(t)[2], Parts(t)[3]>>
    ELSE IF Len(Parts(t)) = 2 /\ IsDay(Parts(t)[1]) /\ Len(Parts(t)[2]) > 2
         THEN <<SubSeq(Parts(t)[2], 1, Len(Parts(t)[2]) - 2),
                SubSeq(Parts(t)[2], Len(Parts(t)[2]) - 1, Len(Parts(t)[2]))>>
    ELSE <<<<>>, <<>>>>

IsDayMonthShortYear(t) ==
    IsMonth(MonthAndShortYear(t)[1]) /\ IsDigits(MonthAndShortYear(t)[2], 2)

\* year = 1900 + year if year >= 50 else 2000 + year
Century(yy) == IF yy[1] \in {"5", "6", "7", "8", "9"} THEN <<"1", "9">> ELSE <<"2", "0">>

\* re.search(r'(\d{4})', s_clean): the first four digits in a row, if any
HasYear(t) == \E i \in 1..(Len(t) - 3) : IsDigits(SubSeq(t, i, i + 3), 4)

FirstYear(t) ==
    LET i == CHOOSE k \in 1..(Len(t) - 3) :
                 /\ IsDigits(SubSeq(t, k, k + 3), 4)
                 /\ \A h \in 1..(k - 1) : ~IsDigits(SubSeq(t, h, h + 3), 4)
    IN  SubSeq(t, i, i + 3)

_normalize_date(date_str) ==
    LET t == strip(date_str)
        cl == s_clean(t)
    IN  IF date_str = <<>> THEN NoDate
        ELSE IF lower(t) \in null_words THEN NoDate
        ELSE IF iso_forms(t) # NoDate THEN iso_forms(t)
        ELSE IF IsDayMonthYear(cl)
             THEN Parts(cl)[3] \o <<"-">> \o month_map[Parts(cl)[2]] \o <<"-">> \o Day02(Parts(cl)[1])
        ELSE IF IsMonthDayYear(cl)
             THEN Parts(cl)[3] \o <<"-">> \o month_map[Parts(cl)[1]] \o <<"-">> \o Day02(Parts(cl)[2])
        ELSE IF IsMonthYear(cl)
             THEN Parts(cl)[2] \o <<"-">> \o month_map[Parts(cl)[1]] \o <<"-", "0", "1">>
        ELSE IF HasYear(cl) THEN FirstYear(cl) \o <<"-", "0", "1", "-", "0", "1">>
        ELSE NoDate

_normalize_date_local(date_str) ==
    LET t == strip(date_str)
        cl == s_clean(t)
    IN  IF date_str = <<>> THEN NoDate
        ELSE IF lower(t) \in null_words THEN NoDate
        ELSE IF iso_forms(t) # NoDate THEN iso_forms(t)
        ELSE IF IsDayMonthYear(cl)
             THEN Parts(cl)[3] \o <<"-">> \o month_map[Parts(cl)[2]] \o <<"-">> \o Day02(Parts(cl)[1])
        ELSE IF IsMonthYear(cl)
             THEN Parts(cl)[2] \o <<"-">> \o month_map[Parts(cl)[1]] \o <<"-", "0", "1">>
        ELSE IF IsDayMonthShortYear(cl)
             THEN Century(MonthAndShortYear(cl)[2]) \o MonthAndShortYear(cl)[2] \o <<"-">>
                      \o month_map[MonthAndShortYear(cl)[1]] \o <<"-">> \o Day02(Parts(cl)[1])
        ELSE NoDate

\* the reference of the test: the null words are compared before the strip
normalize_date(date_str) ==
    LET t == strip(date_str)
    IN  IF date_str = <<>> \/ date_str = <<"n", "u", "l", "l">>
           \/ lower(date_str) = <<"n", "o", "t", " ", "f", "o", "u", "n", "d">>
        THEN NoDate
        ELSE IF IsoFull(t) THEN t
        ELSE IF IsoYear(t) THEN t \o <<"-", "0", "1", "-", "0", "1">>
        ELSE IF IsoMonth(t) THEN t \o <<"-", "0", "1">>
        ELSE NoDate

DateSamples ==
    {<<"1", "9", "2", "7", "-", "0", "8", "-", "0", "4">>,
     <<"1", "9", "5", "3">>,
     <<"1", "8", "1", "8", "-", "0", "2">>,
     <<>>,
     <<"n", "u", "l", "l">>,
     <<"n", "o", "t", " ", "f", "o", "u", "n", "d">>,
     <<" ", "1", "9", "4", "5", " ">>,
     <<"N", "U", "L", "L">>,
     <<"U", "n", "k", "n", "o", "w", "n">>,
     <<"J", "a", "n", " ", "5", ",", " ", "1", "9", "8", "0">>,
     <<"5", " ", "J", "a", "n", "u", "a", "r", "y", " ", "1", "9", "8", "0">>,
     <<"M", "a", "r", "c", "h", " ", "1", "9", "8", "0">>,
     <<"c", ".", " ", "1", "9", "8", "0">>,
     <<"5", " ", "j", "a", "n", " ", "8", "0">>,
     <<"1", "2", "3", "4", "5">>,
     <<"1", "9", "8", "0", "-", "1", "-", "5">>,
     <<"s", "o", "o", "n">>,
     <<"5", " ", "S", "m", "a", "r", "c", "h", " ", "1", "9", "8", "0">>}

Normalizers == {"person", "local", "reference"}

InitDate ==
    /\ d_input \in DateSamples
    /\ d_done = {}
    /\ d_out = [n \in Normalizers |-> NoDate]
    /\ IdleNotDate

NormalizeDate ==
    /\ "person" \notin d_done
    /\ d_done' = d_done \cup {"person"}
    /\ d_out' = [d_out EXCEPT !["person"] = _normalize_date(d_input)]
    /\ UNCHANGED <<d_input, notDate>>

NormalizeDateLocal ==
    /\ "local" \notin d_done
    /\ d_done' = d_done \cup {"local"}
    /\ d_out' = [d_out EXCEPT !["local"] = _normalize_date_local(d_input)]
    /\ UNCHANGED <<d_input, notDate>>

NormalizeDateReference ==
    /\ "reference" \notin d_done
    /\ d_done' = d_done \cup {"reference"}
    /\ d_out' = [d_out EXCEPT !["reference"] = normalize_date(d_input)]
    /\ UNCHANGED <<d_input, notDate>>

NextDate == NormalizeDate \/ NormalizeDateLocal \/ NormalizeDateReference

SpecDate == InitDate /\ [][NextDate]_vars

generic_terms ==
    <<<<"V", "e", "t", "e", "r", "a", "n", "s", " ", "M", "e", "m", "o", "r", "i", "a", "l">>,
      <<"G", "o", "l", "d", " ", "S", "t", "a", "r", " ", "F", "a", "m", "i", "l", "y", " ", "M", "e", "m", "o", "r", "i", "a", "l">>,
      <<"S", "u", "b", "m", "a", "r", "i", "n", "e", " ", "V", "e", "t", "e", "r", "a", "n", "s", " ", "M", "e", "m", "o", "r", "i", "a", "l">>,
      <<"H", "o", "p", "e", " ", "a", "n", "d", " ", "H", "e", "a", "l", "i", "n", "g", " ", "H", "i", "g", "h", "w", "a", "y">>,
      <<"C", "o", "u", "n", "t", "y", " ", "V", "e", "t", "e", "r", "a", "n", "s", " ", "M", "e", "m", "o", "r", "i", "a", "l">>>>

dedicated_ranks ==
    <<<<"C", "P", "L">>,
      <<"S", "e", "r", "g", "e", "a", "n", "t">>,
      <<"L", "i", "e", "u", "t", "e", "n", "a", "n", "t">>,
      <<"C", "a", "p", "t", "a", "i", "n">>,
      <<"M", "a", "j", "o", "r">>,
      <<"C", "o", "l", "o", "n", "e", "l">>,
      <<"G", "e", "n", "e", "r", "a", "l">>>>

road_keywords ==
    <<<<"H", "i", "g", "h", "w", "a", "y">>,
      <<"B", "o", "u", "l", "e", "v", "a", "r", "d">>,
      <<"B", "r", "i", "d", "g", "e">>,
      <<"D", "r", "i", "v", "e">>,
      <<"W", "a", "y">>,
      <<"S", "t", "r", "e", "e", "t">>>>

prefixes_to_remove ==
    <<<<"S", "t", "a", "f", "f", " ", "S", "e", "r", "g", "e", "a", "n", "t">>,
      <<"S", "e", "r", "g", "e", "a", "n", "t">>,
      <<"S", "p", "e", "c", "i", "a", "l", "i", "s", "t">>,
      <<"S", "h", "e", "r", "i", "f", "f">>,
      <<"D", "e", "p", "u", "t", "y">>,
      <<"D", "r", ".">>,
      <<"D", "r">>,
      <<"R", "e", "v", ".", " ", "D", "r", ".">>,
      <<"R", "e", "v", " ", "D", "r">>,
      <<"R", "e", "v", ".">>,
      <<"R", "e", "v">>,
      <<"C", "P", "L">>,
      <<"C", "a", "p", "t", "a", "i", "n">>,
      <<"L", "i", "e", "u", "t", "e", "n", "a", "n", "t">>,
      <<"C", "o", "l", "o", "n", "e", "l">>,
      <<"M", "a", "j", "o", "r">>,
      <<"G", "e", "n", "e", "r", "a", "l">>>>

looks_generic_terms ==
    <<<<"C", "o", "u", "n", "t", "y">>,
      <<"V", "e", "t", "e", "r", "a", "n", "s">>,
      <<"M", "e", "m", "o", "r", "i", "a", "l">>,
      <<"F", "a", "m", "i", "l", "y">>,
      <<"S", "t", "a", "r">>,
      <<"H", "o", "p", "e">>,
      <<"H", "e", "a", "l", "i", "n", "g">>>>

non_person_names ==
    <<<<"C", "o", "u", "n", "t", "y">>,
      <<"V", "e", "t", "e", "r", "a", "n", "s">>,
      <<"M", "e", "m", "o", "r", "i", "a", "l">>,
      <<"H", "i", "g", "h", "w", "a", "y">>,
      <<"B", "r", "i", "d", "g", "e">>,
      <<"B", "o", "u", "l", "e", "v", "a", "r", "d">>>>

\* the patterns of titles_to_remove: words, each with or without an optional
\* dot after it, each followed by whitespace; matched without regard to case
titles_to_remove ==
    <<<<[word |-> <<"d", "r">>, dot |-> TRUE]>>,
      <<[word |-> <<"r", "e", "v">>, dot |-> TRUE], [word |-> <<"d", "r">>, dot |-> TRUE]>>,
      <<[word |-> <<"g", "o", "v", "e", "r", "n", "o", "r">>, dot |-> FALSE]>>,
      <<[word |-> <<"s", "h", "e", "r", "i", "f", "f">>, dot |-> FALSE]>>,
      <<[word |-> <<"d", "e", "p", "u", "t", "y">>, dot |-> FALSE]>>,
      <<[word |-> <<"c", "a", "p", "t", "a", "i", "n">>, dot |-> FALSE]>>,
      <<[word |-> <<"l", "i", "e", "u", "t", "e", "n", "a", "n", "t">>, dot |-> FALSE]>>,
      <<[word |-> <<"c", "o", "l", "o", "n", "e", "l">>, dot |-> FALSE]>>,
      <<[word |-> <<"m", "a", "j", "o", "r">>, dot |-> FALSE]>>,
      <<[word |-> <<"g", "e", "n", "e", "r", "a", "l">>, dot |-> FALSE]>>,
      <<[word |-> <<"s", "t", "a", "f", "f">>, dot |-> FALSE], [word |-> <<"s", "e", "r", "g", "e", "a", "n", "t">>, dot |-> FALSE]>>,
      <<[word |-> <<"s", "e", "r", "g", "e", "a", "n", "t">>, dot |-> FALSE]>>,
      <<[word |-> <<"s", "p", "e", "c", "i", "a", "l", "i", "s", "t">>, dot |-> FALSE]>>,
      <<[word |-> <<"c", "p", "l">>, dot |-> FALSE]>>,
      <<[word |-> <<"u", ".", "s", ".">>, dot |-> FALSE], [word |-> <<"a", "r", "m", "y">>, dot |-> FALSE]>>>>

str_dedicated_to == <<"d", "e", "d", "i", "c", "a", "t", "e", "d", " ", "t", "o", " ">>
str_US == <<"U", ".", "S", ".">>
str_Army == <<"A", "r", "m", "y">>
str_Memorial_suffix == <<" ", "M", "e", "m", "o", "r", "i", "a", "l">>

AnyIn(terms, text) == \E k \in 1..Len(terms) : Contains(text, terms[k])

StartsAt(t, p, w) == p + Len(w) - 1 <= Len(t) /\ SubSeq(t, p, p + Len(w) - 1) = w

\* the first position from p on that holds no whitespace
SkipWs(t, p) ==
    IF \E k \in p..Len(t) : t[k] \notin Whitespace
    THEN CHOOSE k \in p..Len(t) :
             t[k] \notin Whitespace /\ \A h \in p..(k - 1) : t[h] \in Whitespace
    ELSE Max(p, Len(t) + 1)

\* [A-Z][a-z]+ at p: the position of its last letter, 0 if it does not match
CapWordEnd(t, p) ==
    IF p + 1 <= Len(t) /\ t[p] \in Range(UpperCase) /\ t[p + 1] \in Range(LowerCase)
    THEN CHOOSE e \in (p + 1)..Len(t) :
             /\ \A h \in (p + 1)..e : t[h] \in Range(LowerCase)
             /\ e = Len(t) \/ t[e + 1] \notin Range(LowerCase)
    ELSE 0

\* [A-Z][a-z]+(?:\s+[A-Z]\.?\s*)?[A-Z][a-z]+ at p: the position of its last
\* letter, 0 if it does not match.  The optional group is tried first.
NameEnd(t, p) ==
    LET e1 == CapWordEnd(t, p)
        ws == SkipWs(t, e1 + 1)
        afterInitial == IF ws + 1 <= Len(t) /\ t[ws + 1] = "." THEN ws + 2 ELSE ws + 1
        withInitial ==
            IF ws > e1 + 1 /\ ws <= Len(t) /\ t[ws] \in Range(UpperCase)
            THEN CapWordEnd(t, SkipWs(t, afterInitial))
            ELSE 0
    IN  IF e1 = 0 THEN 0
        ELSE IF withInitial > 0 THEN withInitial
        ELSE CapWordEnd(t, e1 + 1)

\* the pattern from "dedicated to " at position p: where the name starts, 0 if
\* the rank does not follow
DedicatedNameStart(t, p) ==
    LET q == p + Len(str_dedicated_to)
        army == SkipWs(t, q + Len(str_US))
        r == IF StartsAt(t, q, str_US) /\ army > q + Len(str_US) /\ StartsAt(t, army, str_Army)
                /\ SkipWs(t, army + Len(str_Army)) > army + Len(str_Army)
             THEN SkipWs(t, army + Len(str_Army))
             ELSE q
    IN  IF \E k \in 1..Len(dedicated_ranks) :
               /\ StartsAt(t, r, dedicated_ranks[k])
               /\ SkipWs(t, r + Len(dedicated_ranks[k])) > r + Len(dedicated_ranks[k])
        THEN LET k == CHOOSE k \in 1..Len(dedicated_ranks) : StartsAt(t, r, dedicated_ranks[k])
             IN  SkipWs(t, r + Len(dedicated_ranks[k]))
        ELSE 0

DedicatedAt(t, p) ==
    /\ StartsAt(t, p, str_dedicated_to)
    /\ DedicatedNameStart(t, p) > 0
    /\ NameEnd(t, DedicatedNameStart(t, p)) > 0

\* re.search(pattern_dedicated, designation).group(1), <<>> without a match
pattern_dedicated(t) ==
    IF \E p \in 1..Len(t) : DedicatedAt(t, p)
    THEN LET p == CHOOSE p \in 1..Len(t) :
                      DedicatedAt(t, p) /\ \A h \in 1..(p - 1) : ~DedicatedAt(t, h)
         IN  SubSeq(t, DedicatedNameStart(t, p), NameEnd(t, DedicatedNameStart(t, p)))
    ELSE <<>>

\* re.sub of one title pattern at the start of the name: what is left of the
\* name, or the name itself if the pattern does not match
RECURSIVE AfterTitle(_, _, _)
AfterTitle(t, title, k) ==
    IF k > Len(title) THEN t
    ELSE LET w == title[k].word
             q == IF title[k].dot /\ Len(w) + 1 <= Len(t) /\ t[Len(w) + 1] = "."
                  THEN Len(w) + 2 ELSE Len(w) + 1
         IN  IF Len(t) >= Len(w) /\ lower(SubSeq(t, 1, Len(w))) = w /\ SkipWs(t, q) > q
             THEN AfterTitle(SubSeq(t, SkipWs(t, q), Len(t)), title, k + 1)
             ELSE <<"no match">>

RECURSIVE RemoveTitles(_, _)
RemoveTitles(t, k) ==
    IF k > Len(titles_to_remove) THEN t
    ELSE IF AfterTitle(t, titles_to_remove[k], 1) = <<"no match">>
         THEN RemoveTitles(t, k + 1)
    ELSE RemoveTitles(AfterTitle(t, titles_to_remove[k], 1), k + 1)

\* re.sub(r'[,\.]+$', '', name)
RECURSIVE TrimPunctuation(_)
TrimPunctuation(t) ==
    IF t # <<>> /\ t[Len(t)] \in {",", "."} THEN TrimPunctuation(SubSeq(t, 1, Len(t) - 1))
    ELSE t

HasDigit(t) == \E k \in 1..Len(t) : t[k] \in Range(Digits)

\* _clean_name of the link finder and of the resolver; "" is <<>>
_clean_name(i, name) ==
    IF i = "lf"
    THEN LET t == strip(collapse(TrimPunctuation(RemoveTitles(name, 1))))
         IN  IF Len(t) < 3 \/ HasDigit(t) \/ AnyIn(non_person_names, t) THEN <<>> ELSE t
    ELSE strip(collapse(TrimPunctuation(SubSeq(name, SkipWs(name, 1), Len(name)))))

_looks_like_person_name(text) ==
    LET words == Fields(text, Range(text) \ Whitespace)
    IN  /\ Len(text) >= 3
        /\ Len(words) >= 2
        /\ ~HasDigit(text)
        /\ ~AnyIn(looks_generic_terms, text)
        /\ \A k \in 1..Len(words) : words[k][1] \in Range(UpperCase)

\* designation.split(keyword)[0]
BeforeFirst(t, w) ==
    LET p == CHOOSE p \in 1..Len(t) : StartsAt(t, p, w) /\ \A h \in 1..(p - 1) : ~StartsAt(t, h, w)
    IN  SubSeq(t, 1, p - 1)

\* the text left of a road keyword, without its prefix and its " Memorial"
LeftOf(t, keyword) ==
    LET parts == strip(BeforeFirst(t, keyword))
        hasPrefix == \E k \in 1..Len(prefixes_to_remove) :
                         StartsAt(parts, 1, prefixes_to_remove[k] \o <<" ">>)
        first == CHOOSE k \in 1..Len(prefixes_to_remove) :
                     /\ StartsAt(parts, 1, prefixes_to_remove[k] \o <<" ">>)
                     /\ \A h \in 1..(k - 1) : ~StartsAt(parts, 1, prefixes_to_remove[h] \o <<" ">>)
        clean_parts == IF hasPrefix
                       THEN strip(SubSeq(parts, Len(prefixes_to_remove[first]) + 1, Len(parts)))
                       ELSE parts
    IN  IF Len(clean_parts) >= Len(str_Memorial_suffix)
           /\ StartsAt(clean_parts, Len(clean_parts) - Len(str_Memorial_suffix) + 1, str_Memorial_suffix)
        THEN strip(SubSeq(clean_parts, 1, Len(clean_parts) - Len(str_Memorial_suffix)))
        ELSE clean_parts

\* the loop over road_keywords from the k-th keyword on
RECURSIVE general_approach(_, _, _)
general_approach(i, t, k) ==
    IF k > Len(road_keywords) THEN <<>>
    ELSE IF Contains(t, road_keywords[k])
            /\ _looks_like_person_name(LeftOf(t, road_keywords[k]))
            /\ _clean_name(i, LeftOf(t, road_keywords[k])) # <<>>
         THEN <<_clean_name(i, LeftOf(t, road_keywords[k]))>>
    ELSE general_approach(i, t, k + 1)

extract_person_names(i, designation) ==
    IF AnyIn(generic_terms, designation) THEN <<>>
    ELSE IF pattern_dedicated(designation) # <<>>
            /\ _clean_name(i, pattern_dedicated(designation)) # <<>>
         THEN <<_clean_name(i, pattern_dedicated(designation))>>
    ELSE general_approach(i, designation, 1)

\* the parts the designations are put together from
DedicationPlaces ==
    {<<"G", "o", "l", "d", " ", "S", "t", "a", "r", " ", "F", "a", "m", "i", "l", "y", " ", "M", "e", "m", "o", "r", "i", "a", "l", " ", "B", "r", "i", "d", "g", "e", ",", " ">>,
     <<"M", "e", "m", "o", "r", "i", "a", "l", " ", "B", "r", "i", "d", "g", "e", ",", " ">>,
     <<"O", "v", "e", "r", "p", "a", "s", "s", " ">>,
     <<"A", "n", "n", " ", "L", "e", "e", " ", "B", "r", "i", "d", "g", "e", ",", " ">>}

DedicationServices == {<<>>, <<"U", ".", "S", ".", " ", "A", "r", "m", "y", " ">>}

DedicationRanks == {<<"C", "P", "L">>, <<"S", "e", "r", "g", "e", "a", "n", "t">>, <<"M", "a", "j", "o", "r">>}

DedicationNames ==
    {<<"F", "r", "a", "n", "k", " ", "R", ".", " ", "G", "r", "o", "s", "s">>,
     <<"F", "r", "a", "n", "k", " ", "G", "r", "o", "s", "s">>,
     <<"E", "v", "e", " ", "B", " ", "L", "e", "e">>}

InitExtract ==
    /\ x_pc = "ready"
    /\ x_impl \in {"lf", "rb"}
    /\ x_person \in DedicationNames
    /\ \E place \in DedicationPlaces, service \in DedicationServices, rank \in DedicationRanks :
          x_designation = place \o str_dedicated_to \o service \o rank \o <<" ">> \o x_person
    /\ x_out = <<>>
    /\ IdleNotExtract

ExtractLF ==
    /\ x_pc = "ready" /\ x_impl = "lf"
    /\ x_out' = extract_person_names("lf", x_designation)
    /\ x_pc' = "done"
    /\ UNCHANGED <<x_impl, x_designation, x_person, notExtract>>

ExtractRB ==
    /\ x_pc = "ready" /\ x_impl = "rb"
    /\ x_out' = extract_person_names("rb", x_designation)
    /\ x_pc' = "done"
    /\ UNCHANGED <<x_impl, x_designation, x_person, notExtract>>

NextExtract == ExtractLF \/ ExtractRB

SpecExtract == InitExtract /\ [][NextExtract]_vars

\* C25 -- for every designation that contains "dedicated to" followed by a rank
\* and a capitalized person name, such as "Gold Star Family Memorial Bridge,
\* dedicated to U.S. Army CPL Frank R. Gross", extract_person_names returns the
\* name of that person.
C25_DedicatedNameExtracted ==
    x_pc = "done" => x_out = <<x_person>>

(***************************************************************************)
(* SpecResume: one run of an ODMP scraping script over an output file left *)
(* by earlier runs.  "names" is the loop of california/odmp_scraper.py and *)
(* states/texas/texas_odmp_scrape.py (target names, search_officer),       *)
(* "departments" the loop of odmp_scraping/odmp_scraping.py (departments,  *)
(* get_person_links), which stops after the first department.  A row of    *)
(* the file is the url it holds.                                           *)
(***************************************************************************)
MaxTargets == 2
MaxLinks == 2

ProfileUrls == {"/officer/1", "/officer/2"}

LinkLists == UNION {[1..k -> ProfileUrls] : k \in 0..MaxLinks}

\* the files earlier runs can have left: no url twice
ResumeFiles ==
    {f \in UNION {[1..k -> ProfileUrls] : k \in 0..Cardinality(ProfileUrls)} :
        \A a, b \in 1..Len(f) : f[a] = f[b] => a = b}

InitResume ==
    /\ u_script \in {"names", "departments"}
    /\ u_pc = "start"
    /\ u_file \in ResumeFiles
    /\ scraped_urls = {}
    /\ u_links \in UNION {[1..k -> LinkLists] : k \in 0..MaxTargets}
    /\ u_i = 1 /\ u_j = 1
    /\ u_log = <<>>
    /\ IdleNotResume

\* resume support: the urls of the rows of the output file, and a run without it
LoadScraped_none(file) == {}

LoadScraped(file) == {file[k] : k \in 1..Len(file)}

ResumeLoad ==
    /\ u_pc = "start"
    /\ scraped_urls' = LoadScraped(u_file)
    /\ u_pc' = "loop"
    /\ UNCHANGED <<u_script, u_file, u_links, u_i, u_j, u_log, notResume>>

\* 'if link in scraped_urls: continue'
ResumeSkip ==
    /\ u_pc = "loop" /\ u_i <= Len(u_links) /\ u_j <= Len(u_links[u_i])
    /\ u_links[u_i][u_j] \in scraped_urls
    /\ u_j' = u_j + 1
    /\ UNCHANGED <<u_script, u_pc, u_file, scraped_urls, u_links, u_i, u_log, notResume>>

\* scrape_person returns a record: the row is appended and the url remembered
ResumeScrape ==
    /\ u_pc = "loop" /\ u_i <= Len(u_links) /\ u_j <= Len(u_links[u_i])
    /\ u_links[u_i][u_j] \notin scraped_urls
    /\ u_log' = Append(u_log, [url |-> u_links[u_i][u_j],
                               in_file |-> \E k \in 1..Len(u_file) : u_file[k] = u_links[u_i][u_j]])
    /\ u_file' = Append(u_file, u_links[u_i][u_j])
    /\ scraped_urls' = scraped_urls \cup {u_links[u_i][u_j]}
    /\ u_j' = u_j + 1
    /\ UNCHANGED <<u_script, u_pc, u_links, u_i, notResume>>

\* scrape_person returns None (timeout) or, in "departments", raises: no row
ResumeScrapeFails ==
    /\ u_pc = "loop" /\ u_i <= Len(u_links) /\ u_j <= Len(u_links[u_i])
    /\ u_links[u_i][u_j] \notin scraped_urls
    /\ u_log' = Append(u_log, [url |-> u_links[u_i][u_j],
                               in_file |-> \E k \in 1..Len(u_file) : u_file[k] = u_links[u_i][u_j]])
    /\ u_j' = u_j + 1
    /\ UNCHANGED <<u_script, u_pc, u_file, scraped_urls, u_links, u_i, notResume>>

\* the links of one name or department are done; "departments" breaks after the first
ResumeNextTarget ==
    /\ u_pc = "loop" /\ u_i <= Len(u_links) /\ u_j > Len(u_links[u_i])
    /\ IF u_script = "departments" THEN u_pc' = "done" /\ u_i' = u_i
       ELSE u_pc' = u_pc /\ u_i' = u_i + 1
    /\ u_j' = 1
    /\ UNCHANGED <<u_script, u_file, scraped_urls, u_links, u_log, notResume>>

ResumeDone ==
    /\ u_pc = "loop" /\ u_i > Len(u_links)
    /\ u_pc' = "done"
    /\ UNCHANGED <<u_script, u_file, scraped_urls, u_links, u_i, u_j, u_log, notResume>>

NextResume ==
    \/ ResumeLoad \/ ResumeSkip \/ ResumeScrape \/ ResumeScrapeFails
    \/ ResumeNextTarget \/ ResumeDone

SpecResume == InitResume /\ [][NextResume]_vars

ServiceGateFails ==
    /\ sc_pc = "scored" /\ sc_impl = "lf"
    /\ sc_ctx # {} /\ sc_ctx \subseteq {"law", "military"}
    /\ \E role \in sc_ctx : role \notin sc_doc.hits

\* C27 -- in search_wikipedia_with_validation, when the designation expects only
\* law-enforcement and/or military roles, a candidate that fails an expected role
\* gate is never accepted: whatever the other signals, its score stays below the
\* acceptance threshold of 75.
C27_GateFailNeverAccepted ==
    ServiceGateFails =>
        /\ sc_out.score < 75
        /\ AcceptedLF(1, sc_out.score) = 0
        /\ \E k \in 1..Len(sc_out.notes) :
              sc_out.notes[k].tag \in {"law-gate-fail", "military-gate-fail"}

\* the best a candidate that fails one gate can do: a human with the exact name,
\* the other expected role, Florida, the county and the United States (48 points)
C27_Witness ==
    /\ ServiceGateFails /\ sc_ctx = {"law", "military"}
    /\ sc_out.score = 20 + 40 + 15 + 10 + 8 + 5 - 50

(***************************************************************************)
(* SpecEnhance: the row loop of MemorialDataEnhancer.enhance_csv ("data")  *)
(* and of ImprovedMemorialEnhancer.enhance_csv_with_retry ("retry").  An   *)
(* input row is the list of the statuses of its names: "data" reads one    *)
(* name and its status from each row; "retry" takes the name of the row or *)
(* the names extract_person_names finds in its designation, none or        *)
(* several, and the status resolve_best gives each.                        *)
(***************************************************************************)
MaxInputRows == 2

Statuses == {"Found", "Not Found"}

\* how many names a row of "retry" gives: none, one, or two ("Deputies A and B")
NamesPerRow == {0, 1, 2}

InputRows(i) ==
    IF i = "data" THEN {<<st>> : st \in Statuses}
    ELSE UNION {[1..k -> Statuses] : k \in NamesPerRow}

\* the counters a call of process_person_with_retry can end with, from turn a
\* of its loop on and the counters c
RECURSIVE process_person_with_retry(_, _, _)
process_person_with_retry(i, a, c) ==
    IF a >= RangeLen(i)
    THEN \* the loop ran out: "retry" counts an error after it, "data" returns
         IF i = "retry" THEN {[c EXCEPT !.error = @ + 1]} ELSE {c}
    ELSE {[c EXCEPT !.success = @ + 1]} \cup
         UNION {IF i = "retry"
                THEN IF IsRateLimitRetry(e)
                     THEN IF a >= max_retries
                          THEN {[c EXCEPT !.rate_limit = @ + 1, !.error = @ + 1]}
                          ELSE process_person_with_retry(i, a + 1, [c EXCEPT !.rate_limit = @ + 1])
                     ELSE {[c EXCEPT !.error = @ + 1]}
                ELSE IF IsRateLimitData(e) /\ a < max_retries - 1
                     THEN process_person_with_retry(i, a + 1, c)
                     ELSE {[c EXCEPT !.error = @ + 1]}
                : e \in Errors}

\* the rows of the person-level list: one for each name of each input row
RECURSIVE PersonRows(_, _)
PersonRows(input, k) ==
    IF k > Len(input) THEN <<>>
    ELSE [j \in 1..Len(input[k]) |-> [src |-> k, status |-> input[k][j]]]
             \o PersonRows(input, k + 1)

\* rows = rows[:max_entries] "if max_entries"
Limited(rows, limit) ==
    IF limit # 0 /\ Len(rows) > limit THEN SubSeq(rows, 1, limit) ELSE rows

\* enhanced_row: the row and its biography columns
EnhancedRow(row, summary) == [src |-> row.src, status |-> row.status, summary |-> summary]

InitEnhance ==
    /\ e_impl \in {"data", "retry"}
    /\ e_pc = "read"
    /\ e_input \in UNION {[1..k -> InputRows(e_impl)] : k \in 0..MaxInputRows}
    /\ max_entries \in 0..MaxInputRows
    /\ e_rows = <<>> /\ e_i = 1
    /\ enhanced_rows = <<>>
    /\ e_counts = [success |-> 0, rate_limit |-> 0, error |-> 0]
    /\ processed_count = 0 /\ skipped_count = 0
    /\ IdleNotEnhance

\* the rows the loop goes over: all rows of the file in "data", the first
\* max_entries person rows in "retry"
EnhanceRead ==
    /\ e_pc = "read"
    /\ e_rows' = IF e_impl = "data" THEN PersonRows(e_input, 1)
                 ELSE Limited(PersonRows(e_input, 1), max_entries)
    /\ e_pc' = "rows"
    /\ UNCHANGED <<e_impl, e_input, max_entries, e_i, enhanced_rows, e_counts,
                   processed_count, skipped_count, notEnhance>>

\* a row with a Wikipedia URL, below the limit: process_person_with_retry
EnhanceProcess ==
    /\ e_pc = "rows" /\ e_i <= Len(e_rows)
    /\ e_rows[e_i].status = "Found"
    /\ ~(max_entries # 0 /\ processed_count >= max_entries)
    /\ \E c \in process_person_with_retry(e_impl, 0, e_counts) :
          /\ e_counts' = c
          /\ enhanced_rows' = Append(enhanced_rows,
                 EnhancedRow(e_rows[e_i], IF c.success > e_counts.success THEN "text" ELSE ""))
    /\ processed_count' = processed_count + 1
    /\ e_i' = e_i + 1
    /\ UNCHANGED <<e_impl, e_pc, e_input, max_entries, e_rows, skipped_count, notEnhance>>

\* a row with a Wikipedia URL once the limit is reached: the empty columns
EnhanceOverLimit ==
    /\ e_pc = "rows" /\ e_i <= Len(e_rows)
    /\ e_rows[e_i].status = "Found"
    /\ max_entries # 0 /\ processed_count >= max_entries
    /\ enhanced_rows' = Append(enhanced_rows, EnhancedRow(e_rows[e_i], ""))
    /\ e_i' = e_i + 1
    /\ UNCHANGED <<e_impl, e_pc, e_input, max_entries, e_rows, e_counts, processed_count,
                   skipped_count, notEnhance>>

\* a row without a Wikipedia URL
EnhanceSkip ==
    /\ e_pc = "rows" /\ e_i <= Len(e_rows)
    /\ e_rows[e_i].status # "Found"
    /\ skipped_count' = skipped_count + 1
    /\ enhanced_rows' = Append(enhanced_rows, EnhancedRow(e_rows[e_i], ""))
    /\ e_i' = e_i + 1
    /\ UNCHANGED <<e_impl, e_pc, e_input, max_entries, e_rows, e_counts, processed_count,
                   notEnhance>>

EnhanceWrite ==
    /\ e_pc = "rows" /\ e_i > Len(e_rows)
    /\ e_pc' = "written"
    /\ UNCHANGED <<e_impl, e_input, max_entries, e_rows, e_i, enhanced_rows, e_counts,
                   processed_count, skipped_count, notEnhance>>

NextEnhance ==
    EnhanceRead \/ EnhanceProcess \/ EnhanceOverLimit \/ EnhanceSkip \/ EnhanceWrite

SpecEnhance == InitEnhance /\ [][NextEnhance]_vars

\* C28 -- each call of process_person_with_retry increments exactly one of
\* success_count and error_count, so processed_count equals success_count plus
\* error_count after every processed row of enhance_csv and enhance_csv_with_retry.
C28_ProcessedIsSuccessPlusError ==
    [][/\ processed_count' = e_counts'.success + e_counts'.error
       /\ processed_count' # processed_count =>
             \/ /\ e_counts'.success = e_counts.success + 1
                /\ e_counts'.error = e_counts.error
             \/ /\ e_counts'.success = e_counts.success
                /\ e_counts'.error = e_counts.error + 1]_vars

\* two rows processed, one call a success and one an error after throttling
C28_Witness ==
    /\ processed_count = 2 /\ e_counts.success = 1 /\ e_counts.error = 1
    /\ e_counts.rate_limit > 0

\* C29 -- enhance_csv and enhance_csv_with_retry emit exactly one output row per
\* input row, in input order; when max_entries is set the summarizer is invoked
\* for at most max_entries rows (processed_count never exceeds max_entries), and
\* the rows beyond the limit are still written, with empty biography fields.
C29_OneRowPerInputRow ==
    /\ max_entries # 0 => processed_count <= max_entries
    /\ e_pc = "written" =>
          /\ Len(enhanced_rows) = Len(e_input)
          /\ \A k \in 1..Len(enhanced_rows) : enhanced_rows[k].src = k
          /\ Cardinality({k \in 1..Len(enhanced_rows) : enhanced_rows[k].summary # ""})
                 <= processed_count

(***************************************************************************)
(* Disabled sources of scrape_person, under SpecBatch                      *)
(***************************************************************************)
\* C30 -- in scrape_person a disabled source is never called and the fields of
\* PersonRecord that belong to it keep their default values; the AI summarizer
\* is skipped as well, its fields left at their defaults, whenever no Wikipedia
\* link was obtained for the name.
C30_DisabledSourceKeepsDefaults ==
    \A k \in 1..Len(results) :
        /\ "odmp" \notin enabled => ~results[k].odmp_url
        /\ "wikidata" \notin enabled => ~results[k].wikipedia_link
        /\ "ai" \notin enabled => ~results[k].ai_summary
        /\ ~results[k].wikipedia_link => ~results[k].ai_summary

\* the summarizer is enabled, Wikidata too or not, and a name matched on ODMP
\* got no Wikipedia link: its record has no summary
C30_Witness ==
    /\ "ai" \in enabled /\ "odmp" \in enabled
    /\ \E k \in 1..Len(results) :
          results[k].odmp_url /\ ~results[k].wikipedia_link /\ ~results[k].ai_summary

====
